---- MODULE Spec2Model ----
(***************************************************************************)
(* magnetm3u8: a gateway that brokers control messages between web clients *)
(* and worker nodes, and workers that download torrents, slice them into   *)
(* HLS segments and serve them over WebRTC data channels.                  *)
(*                                                                         *)
(* The module holds five state machines that share no state:               *)
(*   - the worker's WebRTC manager (worker/webrtc, Manager),               *)
(*   - the gateway's request correlator (GatewayController),               *)
(*   - the worker's task pipeline (downloader.Manager, app.Worker,         *)
(*     database.TaskRepository),                                           *)
(*   - the worker's data-channel file server (Manager.handleFileRequest),  *)
(*   - the gateway's worker registry (cluster.Manager).                    *)
(* Each has its own next-state relation and specification; Spec is their   *)
(* interleaving.                                                           *)
(***************************************************************************)
EXTENDS Integers, Sequences, FiniteSets, TLC

(***************************************************************************)
(* Bounds of the model.                                                    *)
(***************************************************************************)
\* peer-connection handles the WebRTC library can hand out in one run
MaxPc == 3

\* longest task list a worker returns in a tasks_response
MaxList == 2

\* task ids generateTaskID hands out in one run of the worker model
MaxTask == 1

\* bytes of every torrent (task.Size)
TorrentSize == 2

\* download work units (goroutines running downloadTask) alive at the same time
MaxUnit == 2

\* transcode jobs the worker holds at the same time
MaxJob == 1

\* capacity of the two status channels (100 in the code)
ChanCap == 1

\* downloader.New: maxTasks
maxTasks == 5

\* transcoder.New: maxTasks
maxTranscodes == 3

\* bytes of a chunk of sendFileData (16 * 1024 in the code)
ServerChunkSize == 2

\* longest file on the worker's disk, in bytes
MaxFileLen == 5

\* minutes the registry model runs for
MaxTime == 12

\* WebSocket connections the workers open to the gateway
MaxConn == 3

\* task ids the repository is called with directly
MaxKey == 3

\* registration frames the gateway link model writes at most
MaxReg == 3

\* frames SendMessage writes at most
MaxSent == 2

\* cleanupOfflineNodes: minutes without heartbeat after which a record is marked offline
OfflineAfter == 2

\* cleanupOfflineNodes: minutes without heartbeat after which a record is deleted
EvictAfter == 10
\* cleanupExpiredSessions: a session older than an hour is deleted (in half hours)
SessionTTL == 2
\* the session clock stops here
MaxSessionTime == 3
\* the gateway goroutines that write to a worker's connection: the HTTP
\* handlers and the relay of a client's messages
Writers == {"SubmitTask", "GetAllTasks", "handleClientMessage"}
ConnIds == 1..MaxConn
\* the browser clients that open signaling sessions
Clients == {"cA", "cB"}

SessionIds == {"S1", "S2"}
PcIds == 1..MaxPc
Workers == {"wA", "wB"}
\* request ids generateRequestID hands out in one run
Requests == {"req1"}
\* the task ids the worker pipeline runs with, and the ids a persisted repository can hold
TaskIds == 1..MaxTask
RepoIds == 1..(maxTasks + 1)
UnitIds == 1..MaxUnit
JobIds == 1..MaxJob
\* the request ids the client puts in its hijackReq messages, one per request
ReqIds == {"Q1", "Q2"}
\* the byte values a file is made of
ByteVals == {77, 202}

VARIABLES
    \* ---- worker WebRTC manager (Manager in worker/webrtc) ----
    sessions,     \* m.sessions: session id -> peer-connection handle, 0 = no entry
    pcState,      \* per handle: "unused", "open", "failed", "closed" (library state)
    pcSession,    \* per handle: the session id its callbacks captured
    pcNotify,     \* handles whose OnConnectionStateChange(failed|closed) callback is still to run
    \* ---- gateway: registry, hub and request correlator (GatewayController) ----
    nodes,        \* gateway.nodes: worker id -> "absent", "online", "offline"
    nodeConns,    \* gc.nodeConns: the worker ids that have a connection entry
    wsPc,         \* HandleNodeWebSocket per worker: "none", "reading", "closing"
    pending,      \* gc.pendingRequests: request id -> [exists, responses, expected]
    respChan,     \* PendingRequest.ResponseChan: [buf (at most 1 value), closed]
    hpc,          \* GetAllTasks per request: "idle", "send", "sent", "wait", "done"
    hNodes,       \* the online workers of the snapshot GetAllTasks has still to write to
    sentCount,    \* GetAllTasks' sentCount
    inflight,     \* get_tasks frames written to a worker and not answered yet: <<worker, request>>
    result,       \* the HTTP answer of GetAllTasks: [code, tasks, nil]
    collected,    \* history: every response handleTasksResponse appended to req.Responses
    detailPc,     \* GetTaskDetail: "idle", "sent", "done"
    detailSent,   \* workers a get_task_detail frame was written to and that have not answered
    detailResult, \* the HTTP answer of GetTaskDetail: "none", "not_found"
    detailLog,    \* what handleTaskDetailResponse logged: [node, found]
    \* ---- worker: task repository, downloader, transcoder, status relay ----
    repo,         \* TaskRepository: task id -> [status, progress, files, playlist, segments, own]; status "absent" = no record;
                  \* playlist: M3U8FilePath is set; segments: the segment list is non-empty
    units,        \* download work units: slot -> [pc, task, rec]; rec is the unit's *models.Task object
    activeTasks,  \* m.activeTasks: the task ids that have a torrent handle
    bytes,        \* per task: BytesCompleted of its torrent data
    hasVideo,     \* per task: whether the torrent of its magnet holds a video file
    statusChan,   \* downloader statusChan: unit slots (each event is a pointer to the unit's task object)
    tunits,       \* startTranscodingForTask / monitorTranscodingProgress goroutines: slot -> [pc, task]
    jobs,         \* transcoder m.tasks: the status of the job bound to a slot
    tcChan,       \* transcoder statusChan: job slots (each event is a pointer to the job)
    gwStatuses,   \* the task_status frames the worker sent to the gateway: [task, status, progress]
    startResult,  \* the outcome of the last StartDownload: "none", "ok", "limit"
    restored,     \* history: restored[t] = the task whose record the unit started for t at the last worker start operates on (0: none)
    \* ---- worker: data-channel file server (Manager.handleFileRequest) ----
    segData,      \* the bytes of the segment file data/m3u8/t1/a.ts
    reqs,         \* handleFileRequest goroutines: request id -> [pc, typ, ts, name, data, next]
    dataChan,     \* the frames sent on the session's data channel, in the order of the Send calls
    readLog,      \* history: the paths os.ReadFile has read
    \* ---- gateway: worker registry (cluster.Manager) ----
    registry,     \* m.nodes: worker id -> [status, lastSeen]; status "absent" = no record
    now,          \* time.Now(), in minutes
    hbResult,     \* the last call of UpdateNodeHeartbeat: [worker, ok]
    \* ---- gateway: signaling sessions (cluster.Manager) ----
    signaling,    \* m.sessions: session id -> [status, client, worker, createdAt]; status "absent" = no entry
    sessionClock, \* time.Now() as the session sweep reads it, in half hours
    \* ---- gateway: writes to the worker connections ----
    writing,      \* per worker connection: the goroutines that are inside conn.WriteJSON
    \* ---- worker: signaling messages dispatched by the read loop ----
    offered,      \* sessions whose webrtc_offer was dispatched and whose handler has not run yet
    candidate,    \* per session, its ice_candidate message: "none", "pending", "applied", "lost"
    \* ---- worker: gateway link (GatewayClient) and shutdown ----
    connected,    \* gc.connected
    conn,         \* gc.conn: "nil", "open", or "dead" (a closed connection still held)
    readLoop,     \* a readLoop goroutine is running
    reconnectLoop, \* a reconnectLoop goroutine is running
    stopped,      \* stopChan is closed
    registrations, \* the registration frames written so far
    sent,         \* the frames SendMessage has written so far
    sendResult,   \* what the last SendMessage returned: "none", "nil", "ErrNotConnected", "error"
    stopLog,      \* Worker.Stop: the components stopped so far, in order
    \* ---- gateway: the connection handlers of the workers (HandleNodeWebSocket) ----
    connPc,       \* per connection: "none", "reading", "closing" (hub entry deleted), "done"
    connWorker,   \* per connection: the worker id its registration frame named
    hubEntry,     \* gc.nodeConns as a map: worker id -> the connection it holds, 0 = no entry
    \* ---- worker: direct calls of the task repository ----
    repoCall,     \* the last repository call: [op, id, err]
    \* ---- gateway: the relay of signaling messages ----
    clientConns,  \* gc.clientConns: the client ids that have a connection entry
    relayed,      \* the outcome of the last answer or candidate handled: [type, session, from, bound]
    \* ---- worker: the goroutines of the gateway link ----
    loops,        \* the reconnectLoop goroutines running
    dialing,      \* the reconnectLoop goroutines inside Connect
    openConns     \* the connections dialed and not closed

peerVars == <<sessions, pcState, pcSession, pcNotify>>
hubVars == <<nodes, nodeConns, wsPc>>
reqVars == <<pending, respChan, hpc, hNodes, sentCount, inflight, result, collected>>
detailVars == <<detailPc, detailSent, detailResult, detailLog>>
fanoutVars == <<hubVars, reqVars, detailVars>>

dlVars == <<units, activeTasks, bytes, hasVideo, statusChan>>
tcVars == <<tunits, jobs, tcChan>>
histVars == <<gwStatuses, startResult, restored>>
workerVars == <<repo, dlVars, tcVars, histVars>>

fileVars == <<segData, reqs, dataChan, readLog>>
regVars == <<registry, now, hbResult>>
sessVars == <<signaling, sessionClock>>
writeVars == <<writing>>
iceVars == <<offered, candidate>>
linkVars == <<connected, conn, readLoop, reconnectLoop, stopped, registrations, sent, sendResult>>
connVars == <<connPc, connWorker, hubEntry>>
relayVars == <<clientConns, relayed>>
loopVars == <<loops, dialing, openConns>>
lastVars == <<relayVars, loopVars>>
moreVars == <<connVars, repoCall, lastVars>>
lateVars == <<writeVars, iceVars, linkVars, stopLog, moreVars>>
restVars == <<sessVars, lateVars>>
otherVars == <<fileVars, regVars, restVars>>

vars == <<peerVars, fanoutVars, workerVars, otherVars>>

(***************************************************************************)
(* Worker WebRTC manager                                                   *)
(***************************************************************************)
InitPeer ==
    /\ sessions = [s \in SessionIds |-> 0]
    /\ pcState = [p \in PcIds |-> "unused"]
    /\ pcSession = [p \in PcIds |-> "none"]
    /\ pcNotify = {}
    /\ offered = {}
    /\ candidate = [s \in SessionIds |-> "none"]

\* the next handle webrtc.NewPeerConnection returns
FreshPc == CHOOSE p \in PcIds : pcState[p] = "unused" /\ \A q \in PcIds : q < p => pcState[q] # "unused"

\* a peer-connection exists from NewPeerConnection until Close
PcExists(p) == pcState[p] \in {"open", "failed"}

\* the map entry HandleOffer leaves for the session: it stores the new handle,
\* whatever the entry held before (the prior handle is neither read nor closed)
OfferEntry(prior, new) == new

\* HandleOffer(sessionID, sdp); sdpOk = FALSE is a failure of SetRemoteDescription,
\* CreateAnswer or SetLocalDescription: the new connection is closed, the entry deleted
HandleOffer(s, sdpOk) ==
    /\ \E p \in PcIds : pcState[p] = "unused"
    /\ LET p == FreshPc IN
        /\ pcSession' = [pcSession EXCEPT ![p] = s]
        /\ IF sdpOk
           THEN /\ pcState' = [pcState EXCEPT ![p] = "open"]
                /\ sessions' = [sessions EXCEPT ![s] = OfferEntry(sessions[s], p)]
                /\ UNCHANGED pcNotify
           ELSE /\ pcState' = [pcState EXCEPT ![p] = "closed"]
                /\ sessions' = [sessions EXCEPT ![s] = 0]
                /\ pcNotify' = pcNotify \cup {p}

\* the library reports an open connection as failed (ICE/DTLS failure)
PeerFails(p) ==
    /\ pcState[p] = "open"
    /\ pcState' = [pcState EXCEPT ![p] = "failed"]
    /\ pcNotify' = pcNotify \cup {p}
    /\ UNCHANGED <<sessions, pcSession>>

\* removeSession(sessionID): closes whatever connection the entry holds now
RemoveSessionState(s) ==
    IF sessions[s] # 0
    THEN [pcState EXCEPT ![sessions[s]] = "closed"]
    ELSE pcState

\* the OnConnectionStateChange callback of handle p, for failed or closed:
\* removeSession(the session id the callback captured)
OnConnectionStateChange(p) ==
    /\ p \in pcNotify
    /\ LET s == pcSession[p]
           closedNow == IF sessions[s] # 0 /\ PcExists(sessions[s]) THEN {sessions[s]} ELSE {}
       IN
        /\ pcState' = RemoveSessionState(s)
        /\ sessions' = [sessions EXCEPT ![s] = 0]
        /\ pcNotify' = (pcNotify \ {p}) \cup (closedNow \ {p})
    /\ UNCHANGED pcSession

\* Manager.Stop: closes the connection of every entry and empties the map
StopWebRTC ==
    /\ \E s \in SessionIds : sessions[s] # 0
    /\ LET held == {sessions[s] : s \in {x \in SessionIds : sessions[x] # 0}} IN
        /\ pcState' = [p \in PcIds |-> IF p \in held THEN "closed" ELSE pcState[p]]
        /\ pcNotify' = pcNotify \cup {p \in held : PcExists(p)}
    /\ sessions' = [s \in SessionIds |-> 0]
    /\ UNCHANGED pcSession

NextPeer ==
    \/ \E s \in SessionIds, ok \in BOOLEAN : HandleOffer(s, ok) /\ UNCHANGED <<fanoutVars, workerVars, otherVars>>
    \/ \E p \in PcIds : PeerFails(p) /\ UNCHANGED <<fanoutVars, workerVars, otherVars>>
    \/ \E p \in PcIds : OnConnectionStateChange(p) /\ UNCHANGED <<fanoutVars, workerVars, otherVars>>
    \/ StopWebRTC /\ UNCHANGED <<fanoutVars, workerVars, otherVars>>

(***************************************************************************)
(* Worker: gateway link (GatewayClient)                                    *)
(***************************************************************************)

\* New: no connection, connected false, stopChan open
\* no answer or candidate forwarded
NoRelay == [type |-> "none", session |-> "none", from |-> "none", bound |-> "none"]

InitLink ==
    /\ connected = FALSE
    /\ conn = "nil"
    /\ readLoop = FALSE
    /\ reconnectLoop = FALSE
    /\ stopped = FALSE
    /\ registrations = 0
    /\ sent = 0
    /\ sendResult = "none"
    /\ stopLog = <<>>
    /\ repoCall = [op |-> "none", id |-> 0, err |-> FALSE]
    /\ clientConns = {}
    /\ relayed = NoRelay
    /\ loops = 0
    /\ dialing = 0
    /\ openConns = 0

\* Connect(nodeInfo): a failed dial returns the error; after the dial conn and
\* connected are set; the registration frame is written; when that write fails
\* the connection is closed and the error returned (conn and connected stay as
\* set), else the read loop and a reconnect loop are started
Connect(dialOk, writeOk) ==
    /\ IF ~dialOk
       THEN UNCHANGED <<connected, conn, readLoop, reconnectLoop, registrations>>
       ELSE /\ connected' = TRUE
            /\ IF writeOk
               THEN /\ conn' = "open"
                    /\ registrations' = registrations + 1
                    /\ readLoop' = TRUE
                    /\ reconnectLoop' = TRUE
               ELSE /\ conn' = "dead"
                    /\ UNCHANGED <<readLoop, reconnectLoop, registrations>>
    /\ UNCHANGED <<stopped, sent, sendResult, stopLog>>

\* Worker.Start: the first Connect
StartConnect(dialOk, writeOk) ==
    /\ ~stopped /\ ~connected /\ ~reconnectLoop
    /\ Connect(dialOk, writeOk)

\* reconnectLoop, one tick of its 5-second ticker: Connect when not connected
reconnectTick(dialOk, writeOk) ==
    /\ reconnectLoop /\ ~stopped
    /\ ~connected
    /\ Connect(dialOk, writeOk)

\* readLoop: ReadJSON fails (the link dropped); the deferred function clears
\* connected, closes the connection and sets conn to nil
readLoopFails ==
    /\ readLoop /\ ~stopped
    /\ registrations < MaxReg
    /\ connected' = FALSE
    /\ conn' = "nil"
    /\ readLoop' = FALSE
    /\ UNCHANGED <<reconnectLoop, stopped, registrations, sent, sendResult, stopLog>>

SendOutcome_blind(c, k) == "write"

\* SendMessage: ErrNotConnected when !connected || conn == nil, else the frame
\* is written
SendOutcome(c, k) == IF ~c \/ k = "nil" THEN "ErrNotConnected" ELSE "write"

\* SendMessage(msgType, payload); SendHeartbeat, SendTaskStatus,
\* SendWebRTCAnswer and SendICECandidate build a payload and call it
SendMessage ==
    /\ \/ /\ SendOutcome(connected, conn) = "ErrNotConnected"
          /\ sendResult' = "ErrNotConnected"
          /\ UNCHANGED sent
       \/ /\ SendOutcome(connected, conn) = "write"
          /\ conn = "open"
          /\ sent < MaxSent
          /\ sent' = sent + 1
          /\ sendResult' = "nil"
       \/ /\ SendOutcome(connected, conn) = "write"
          /\ conn # "open"
          /\ sendResult' = "error"
          /\ UNCHANGED sent
    /\ UNCHANGED <<connected, conn, readLoop, reconnectLoop, stopped, registrations, stopLog>>

\* Disconnect: stopChan is closed (both loops return), the connection closed
Disconnect ==
    /\ ~stopped
    /\ stopped' = TRUE
    /\ conn' = "nil"
    /\ connected' = FALSE
    /\ readLoop' = FALSE
    /\ reconnectLoop' = FALSE
    /\ UNCHANGED <<registrations, sent, sendResult>>

\* Worker.Stop: gateway.Disconnect, webrtc.Stop, transcoder.Stop,
\* downloader.Stop, database.Close, in the order of its statements
StopOrder == <<"gateway", "webrtc", "transcoder", "downloader", "database">>

\* the next statement of Worker.Stop
StopStep ==
    /\ Len(stopLog) < Len(StopOrder)
    /\ LET c == StopOrder[Len(stopLog) + 1] IN
        /\ stopLog' = Append(stopLog, c)
        /\ IF c = "gateway"
           THEN Disconnect
           ELSE UNCHANGED linkVars
        /\ IF c = "webrtc" /\ \E s \in SessionIds : sessions[s] # 0
           THEN StopWebRTC
           ELSE UNCHANGED peerVars

\* the worker's link to the gateway: connecting, offers handled while the read
\* loop runs, frames sent, the link dropping and being re-established, shutdown
NextLink ==
    \/ \E dialOk, writeOk \in BOOLEAN :
          /\ StartConnect(dialOk, writeOk)
          /\ UNCHANGED <<peerVars, fanoutVars, workerVars, fileVars, regVars, sessVars, moreVars, writeVars, iceVars>>
    \/ \E dialOk, writeOk \in BOOLEAN :
          /\ reconnectTick(dialOk, writeOk)
          /\ UNCHANGED <<peerVars, fanoutVars, workerVars, fileVars, regVars, sessVars, moreVars, writeVars, iceVars>>
    \/ /\ readLoopFails
       /\ UNCHANGED <<peerVars, fanoutVars, workerVars, fileVars, regVars, sessVars, moreVars, writeVars, iceVars>>
    \/ /\ SendMessage
       /\ UNCHANGED <<peerVars, fanoutVars, workerVars, fileVars, regVars, sessVars, moreVars, writeVars, iceVars>>
    \/ \E s \in SessionIds :
          /\ readLoop
          /\ HandleOffer(s, TRUE)
          /\ UNCHANGED <<fanoutVars, workerVars, otherVars>>
    \/ /\ StopStep
       /\ UNCHANGED <<fanoutVars, workerVars, fileVars, regVars, sessVars, moreVars, writeVars, iceVars>>

(***************************************************************************)
(* Worker: data-channel file server                                        *)
(***************************************************************************)
\* A path is the sequence of its elements: strings.Split(path, "/").
PlaylistRoot == <<"data", "m3u8">>
\* the directories of data/m3u8, in the order os.ReadDir returns them
TaskDirs == <<"t1", "t2">>
SegmentFile == <<"data", "m3u8", "t1", "a.ts">>
PlaylistFile == <<"data", "m3u8", "t1", "index.m3u8">>
\* a file of the worker that is not under the playlist root
OutsideFile == <<"data", "s.ts">>
Files == {SegmentFile, PlaylistFile, OutsideFile}
Dirs == {<<"data">>, PlaylistRoot} \cup {Append(PlaylistRoot, TaskDirs[i]) : i \in 1..Len(TaskDirs)}

\* the bytes of a file
FileBytes(path) ==
    IF path = SegmentFile THEN segData
    ELSE IF path = PlaylistFile THEN <<202, 77, 77>>
    ELSE <<202>>

\* the contents the segment file can have
FileContents == UNION {[1..n -> ByteVals] : n \in 0..MaxFileLen}

\* the values of the ts field the client sends, as [url, path]: url tells an absolute
\* URL (http://host + path) from a bare path
TsPaths ==
    { <<"", "video", "t1", "a.ts">>,          \* /video/t1/a.ts
      <<"", "video", "t9", "a.ts">>,          \* /video/t9/a.ts
      <<"", "video", "t1", "index.m3u8">>,    \* /video/t1/index.m3u8
      <<"", "video", "t1", "zz.ts">>,         \* /video/t1/zz.ts
      <<"", "video", "..", "s.ts">>,          \* /video/../s.ts
      <<"", "video", "..", "zz.ts">>,         \* /video/../zz.ts
      <<"", "video", "t1", "..\\zz.ts">>,     \* /video/t1/..\zz.ts
      <<"a.ts">>,                             \* a.ts
      <<"", "video", "t1", "">> }             \* /video/t1/
TsValues ==
    {[url |-> FALSE, path |-> p] : p \in TsPaths}
    \cup {[url |-> TRUE, path |-> <<"", "video", "t1", "a.ts">>]}
FileRequests ==
    {[typ |-> "hijackReq", ts |-> ts] : ts \in TsValues}
    \cup {[typ |-> "other", ts |-> [url |-> FALSE, path |-> <<"", "video", "t1", "a.ts">>]]}

\* strings.HasSuffix(name, ext) on the file names of the model
HasSuffix(name, ext) ==
    CASE ext = ".ts" -> name \in {"a.ts", "zz.ts", "s.ts", "..\\zz.ts"}
      [] ext = ".m3u8" -> name \in {"index.m3u8"}
      [] OTHER -> FALSE

\* strings.Contains(ts, "../") or strings.Contains(ts, "..\\")
ContainsDotDot(ts) ==
    \/ \E i \in 1..(Len(ts.path) - 1) : ts.path[i] = ".."
    \/ \E i \in 1..Len(ts.path) : ts.path[i] \in {"..\\zz.ts"}

\* url.Parse: the path of an absolute URL, the whole string otherwise
UrlPath(ts) == ts.path

\* strings.TrimPrefix(filePath, "/video/") followed by strings.Split(filePath, "/")
TrimVideo(p) ==
    IF Len(p) >= 3 /\ p[1] = "" /\ p[2] = "video" THEN SubSeq(p, 3, Len(p)) ELSE p

RECURSIVE CleanFrom(_, _)
\* filepath.Clean: empty and "." elements dropped, ".." removes the element before it
CleanFrom(stack, rest) ==
    IF rest = <<>> THEN stack
    ELSE LET e == Head(rest) IN
         IF e = "" \/ e = "." THEN CleanFrom(stack, Tail(rest))
         ELSE IF e = ".." /\ stack # <<>> /\ stack[Len(stack)] # ".."
              THEN CleanFrom(SubSeq(stack, 1, Len(stack) - 1), Tail(rest))
              ELSE CleanFrom(Append(stack, e), Tail(rest))

\* filepath.Join
Join(elems) == CleanFrom(<<>>, elems)

\* os.Stat(path) succeeds
Stat(path) == path \in Files \cup Dirs

\* handleFileRequest, "方法1": the path under the named task directory, "" when
\* the file name has none of the three suffixes
DirectPath(taskID, fileName) ==
    IF HasSuffix(fileName, ".m3u8") \/ HasSuffix(fileName, ".ts") \/ HasSuffix(fileName, ".vtt")
    THEN Join(PlaylistRoot \o <<taskID, fileName>>)
    ELSE <<>>

\* handleFileRequest, "方法2": the directories of data/m3u8 under which
\* os.Stat(filepath.Join(dir, fileName)) succeeds
SearchHits(fileName) ==
    {i \in 1..Len(TaskDirs) : Stat(Join(PlaylistRoot \o <<TaskDirs[i], fileName>>))}

\* the path handleFileRequest settles on; <<>> when found stays false
ActualPath(taskID, fileName) ==
    IF Stat(DirectPath(taskID, fileName)) THEN DirectPath(taskID, fileName)
    ELSE IF SearchHits(fileName) # {}
         THEN LET i == CHOOSE j \in SearchHits(fileName) : \A k \in SearchHits(fileName) : j <= k
              IN Join(PlaylistRoot \o <<TaskDirs[i], fileName>>)
         ELSE <<>>

\* base64.StdEncoding: the output is the sequence of the indices into the
\* alphabet, 64 standing for the padding character '='
Pad == 64

RECURSIVE EncodeToString(_)
EncodeToString(bs) ==
    IF Len(bs) = 0 THEN <<>>
    ELSE IF Len(bs) = 1
         THEN <<bs[1] \div 4, (bs[1] % 4) * 16, Pad, Pad>>
    ELSE IF Len(bs) = 2
         THEN <<bs[1] \div 4, (bs[1] % 4) * 16 + bs[2] \div 16, (bs[2] % 16) * 4, Pad>>
    ELSE <<bs[1] \div 4, (bs[1] % 4) * 16 + bs[2] \div 16, (bs[2] % 16) * 4 + bs[3] \div 64, bs[3] % 64>>
         \o EncodeToString(SubSeq(bs, 4, Len(bs)))

RECURSIVE DecodeString(_)
\* base64.StdEncoding.DecodeString, as the client applies it to a payload
DecodeString(cs) ==
    IF Len(cs) < 4 THEN <<>>
    ELSE LET b1 == cs[1] * 4 + cs[2] \div 16
             b2 == (cs[2] % 16) * 16 + cs[3] \div 4
             b3 == (cs[3] % 4) * 64 + cs[4]
         IN IF cs[3] = Pad THEN <<b1>>
            ELSE IF cs[4] = Pad THEN <<b1, b2>>
            ELSE <<b1, b2, b3>> \o DecodeString(SubSeq(cs, 5, Len(cs)))

TotalSlices_floor(totalLength) == totalLength \div ServerChunkSize

\* sendFileData: totalSlices
TotalSlices(totalLength) == (totalLength + ServerChunkSize - 1) \div ServerChunkSize

\* sendFileData: data[start:end] of slice i
Chunk(data, i) ==
    LET start == i * ServerChunkSize
        end == IF start + ServerChunkSize > Len(data) THEN Len(data) ELSE start + ServerChunkSize
    IN SubSeq(data, start + 1, end)

FileResponse_zero(name, id, data, i) ==
    [type |-> IF HasSuffix(name, ".m3u8") \/ HasSuffix(name, ".vtt")
              THEN "hijackRespText" ELSE "hijackRespData",
     id |-> id,
     sliceNum |-> 0,
     totalSliceNum |-> TotalSlices(Len(data)),
     totalLength |-> Len(data),
     payload |-> EncodeToString(Chunk(data, i)),
     error |-> ""]

\* sendFileData: the FileResponse of slice i
FileResponse(name, id, data, i) ==
    [type |-> IF HasSuffix(name, ".m3u8") \/ HasSuffix(name, ".vtt")
              THEN "hijackRespText" ELSE "hijackRespData",
     id |-> id,
     sliceNum |-> i,
     totalSliceNum |-> TotalSlices(Len(data)),
     totalLength |-> Len(data),
     payload |-> EncodeToString(Chunk(data, i)),
     error |-> ""]

\* sendFileError: the frame {type: hijackError, id, error}
ErrorResponse(id, errorMsg) ==
    [type |-> "hijackError", id |-> id, sliceNum |-> 0, totalSliceNum |-> 0,
     totalLength |-> 0, payload |-> <<>>, error |-> errorMsg]

NotFoundMsg_read == "Failed to read file"

\* the error text of handleFileRequest when found is false
NotFoundMsg == "File not found"

NoRequest == [pc |-> "new", typ |-> "", ts |-> [url |-> FALSE, path |-> <<>>],
              name |-> "", data |-> <<>>, next |-> 0]

\* no request received yet, nothing sent
IdleFileServer ==
    /\ reqs = [id \in ReqIds |-> NoRequest]
    /\ dataChan = <<>>
    /\ readLog = {}

InitFile ==
    /\ segData = <<>>
    /\ IdleFileServer

\* the worker has transcoded: the segment file has some content
InitFileServer ==
    /\ segData \in FileContents
    /\ IdleFileServer

\* OnMessage starts handleFileRequest(sessionID, msg.Data) for the message
\* {type: r.typ, ts: r.ts, id: id}, which runs up to its first Send or its return:
\* pc "silent" = returned without a frame, "error" = sendFileError called,
\* "send" = inside the loop of sendFileData, "served" = sendFileData returned
handleFileRequest(id, r) ==
    /\ reqs[id].pc = "new"
    /\ LET parts == TrimVideo(UrlPath(r.ts))
           got == [NoRequest EXCEPT !.typ = r.typ, !.ts = r.ts]
       IN
        IF r.typ # "hijackReq"
        THEN /\ reqs' = [reqs EXCEPT ![id] = [got EXCEPT !.pc = "silent"]]
             /\ UNCHANGED <<dataChan, readLog>>
        ELSE IF Len(parts) < 2
        THEN /\ reqs' = [reqs EXCEPT ![id] = [got EXCEPT !.pc = "error"]]
             /\ dataChan' = Append(dataChan, ErrorResponse(id, "Invalid file path"))
             /\ UNCHANGED readLog
        ELSE LET taskID == parts[1]
                 fileName == parts[2]
                 actualPath == ActualPath(taskID, fileName)
             IN
              IF actualPath = <<>>
              THEN /\ reqs' = [reqs EXCEPT ![id] = [got EXCEPT !.pc = "error"]]
                   /\ dataChan' = Append(dataChan, ErrorResponse(id, NotFoundMsg))
                   /\ UNCHANGED readLog
              ELSE IF actualPath \notin Files
              THEN /\ reqs' = [reqs EXCEPT ![id] = [got EXCEPT !.pc = "error"]]
                   /\ dataChan' = Append(dataChan, ErrorResponse(id, "Failed to read file"))
                   /\ UNCHANGED readLog
              ELSE /\ readLog' = readLog \cup {actualPath}
                   /\ reqs' = [reqs EXCEPT ![id] =
                                [got EXCEPT !.pc = IF TotalSlices(Len(FileBytes(actualPath))) = 0
                                                   THEN "served" ELSE "send",
                                            !.name = fileName,
                                            !.data = FileBytes(actualPath)]]
                   /\ UNCHANGED dataChan
    /\ UNCHANGED <<segData, regVars, restVars>>

\* one turn of the loop of sendFileData: slice next is sent
sendFileData(id) ==
    /\ reqs[id].pc = "send"
    /\ LET q == reqs[id] IN
        /\ dataChan' = Append(dataChan, FileResponse(q.name, id, q.data, q.next))
        /\ reqs' = [reqs EXCEPT ![id].next = q.next + 1,
                                ![id].pc = IF q.next + 1 < TotalSlices(Len(q.data))
                                           THEN "send" ELSE "served"]
    /\ UNCHANGED <<segData, readLog, regVars, restVars>>

NextFile ==
    \/ \E id \in ReqIds, r \in FileRequests : handleFileRequest(id, r) /\ UNCHANGED <<peerVars, fanoutVars, workerVars>>
    \/ \E id \in ReqIds : sendFileData(id) /\ UNCHANGED <<peerVars, fanoutVars, workerVars>>

(***************************************************************************)
(* Gateway: worker registry                                                *)
(***************************************************************************)
NoNode == [status |-> "absent", lastSeen |-> 0]
NoBeat == [worker |-> "none", ok |-> FALSE]

\* no signaling session
NoSession == [status |-> "absent", client |-> "none", worker |-> "none", createdAt |-> 0]

\* NewManager: empty node and session maps
InitRegistry ==
    /\ registry = [w \in Workers |-> NoNode]
    /\ now = 0
    /\ hbResult = NoBeat
    /\ signaling = [s \in SessionIds |-> NoSession]
    /\ sessionClock = 0

\* RegisterNode: the record is stored or replaced, online, seen now
RegisterNode(w) ==
    /\ registry' = [registry EXCEPT ![w] = [status |-> "online", lastSeen |-> now]]
    /\ UNCHANGED <<now, hbResult, fileVars, restVars>>

HeartbeatRecord_upsert(rec, t) == [status |-> "online", lastSeen |-> t]

\* the record UpdateNodeHeartbeat leaves for a worker id
HeartbeatRecord(rec, t) ==
    IF rec.status # "absent" THEN [status |-> "online", lastSeen |-> t] ELSE rec

\* UpdateNodeHeartbeat(nodeID): an existing record is refreshed and true returned,
\* else false
UpdateNodeHeartbeat(w) ==
    /\ registry' = [registry EXCEPT ![w] = HeartbeatRecord(registry[w], now)]
    /\ hbResult' = [worker |-> w, ok |-> registry[w].status # "absent"]
    /\ UNCHANGED <<now, fileVars, restVars>>

\* RemoveNode
RemoveNode(w) ==
    /\ registry[w].status # "absent"
    /\ registry' = [registry EXCEPT ![w] = NoNode]
    /\ UNCHANGED <<now, hbResult, fileVars, restVars>>

Stale_early(rec, t) == t - rec.lastSeen >= OfflineAfter

\* cleanupOfflineNodes: now.Sub(node.LastSeen) > 2*time.Minute
Stale(rec, t) == t - rec.lastSeen > OfflineAfter

\* cleanupOfflineNodes: now.Sub(node.LastSeen) > 10*time.Minute
Expired(rec, t) == t - rec.lastSeen > EvictAfter

\* cleanupOfflineNodes: the registry one run of the sweep leaves at time t
Swept(reg, t) ==
    [w \in Workers |->
       IF reg[w].status # "absent" /\ Stale(reg[w], t)
       THEN IF Expired(reg[w], t)
            THEN NoNode
            ELSE [reg[w] EXCEPT !.status = "offline"]
       ELSE reg[w]]

\* cleanupOfflineNodes, one run of the sweep under the lock
cleanupOfflineNodes ==
    /\ registry' = Swept(registry, now)
    /\ UNCHANGED <<now, hbResult, fileVars, restVars>>

\* a minute passes
Tick ==
    /\ now < MaxTime
    /\ now' = now + 1
    /\ UNCHANGED <<registry, hbResult, fileVars, restVars>>

NextRegistry ==
    \/ \E w \in Workers : RegisterNode(w) /\ UNCHANGED <<peerVars, fanoutVars, workerVars>>
    \/ \E w \in Workers : UpdateNodeHeartbeat(w) /\ UNCHANGED <<peerVars, fanoutVars, workerVars>>
    \/ \E w \in Workers : RemoveNode(w) /\ UNCHANGED <<peerVars, fanoutVars, workerVars>>
    \/ cleanupOfflineNodes /\ UNCHANGED <<peerVars, fanoutVars, workerVars>>
    \/ Tick /\ UNCHANGED <<peerVars, fanoutVars, workerVars>>

(***************************************************************************)
(* Gateway: worker connections and the request correlator                  *)
(***************************************************************************)
NoTasks == <<>>
NoPending == [exists |-> FALSE, responses |-> <<>>, expected |-> 0]
\* no answer written yet; nil marks a nil task slice, written to the client as JSON null
NoResult == [code |-> 0, tasks |-> NoTasks, nil |-> FALSE]

InitFanout ==
    /\ nodes = [w \in Workers |-> "absent"]
    /\ nodeConns = {}
    /\ wsPc = [w \in Workers |-> "none"]
    /\ pending = [r \in Requests |-> NoPending]
    /\ respChan = [r \in Requests |-> [buf |-> <<>>, closed |-> FALSE]]
    /\ hpc = [r \in Requests |-> "idle"]
    /\ hNodes = [r \in Requests |-> {}]
    /\ sentCount = [r \in Requests |-> 0]
    /\ inflight = {}
    /\ result = [r \in Requests |-> NoResult]
    /\ collected = [r \in Requests |-> <<>>]
    /\ detailPc = "idle"
    /\ detailSent = {}
    /\ detailResult = "none"
    /\ detailLog = {}
    /\ writing = [w \in Workers |-> {}]
    /\ connPc = [c \in ConnIds |-> "none"]
    /\ connWorker = [c \in ConnIds |-> "none"]
    /\ hubEntry = [w \in Workers |-> 0]

\* GatewayManager.GetOnlineNodes
GetOnlineNodes == {w \in Workers : nodes[w] = "online"}

\* HandleNodeWebSocket up to its read loop: RegisterNode, then the hub entry
NodeConnect(w) ==
    /\ wsPc[w] = "none"
    /\ nodes' = [nodes EXCEPT ![w] = "online"]
    /\ nodeConns' = nodeConns \cup {w}
    /\ wsPc' = [wsPc EXCEPT ![w] = "reading"]
    /\ UNCHANGED <<reqVars, detailVars>>

\* the read loop ends on a read error: delete(gc.nodeConns, id)
NodeDisconnect(w) ==
    /\ wsPc[w] = "reading"
    /\ nodeConns' = nodeConns \ {w}
    /\ wsPc' = [wsPc EXCEPT ![w] = "closing"]
    /\ UNCHANGED <<nodes, reqVars, detailVars>>

\* ... followed by gc.gateway.RemoveNode(id)
NodeRemove(w) ==
    /\ wsPc[w] = "closing"
    /\ nodes' = [nodes EXCEPT ![w] = "absent"]
    /\ wsPc' = [wsPc EXCEPT ![w] = "none"]
    /\ UNCHANGED <<nodeConns, reqVars, detailVars>>

\* the task list a worker answers get_tasks with: n tasks, each carrying its
\* id and the worker's id (handleGetTasks)
WorkerTaskList(w, n) == [i \in 1..n |-> [id |-> i, worker_id |-> w]]

\* a variant of the merge that keeps one task per task id
MergeTasks_dedup(responses) ==
    LET RECURSIVE Go(_, _)
        Go(i, acc) ==
            IF i > Len(responses) THEN acc
            ELSE LET ts == responses[i].tasks
                     RECURSIVE Add(_, _)
                     Add(j, a) ==
                        IF j > Len(ts) THEN a
                        ELSE IF \E k \in 1..Len(a) : a[k].id = ts[j].id
                             THEN Add(j + 1, a)
                             ELSE Add(j + 1, Append(a, ts[j]))
                 IN Go(i + 1, Add(1, acc))
    IN Go(1, <<>>)

\* handleTasksResponse's merge: for each response in arrival order, each of
\* its tasks is appended to allTasks
MergeTasks(responses) ==
    LET RECURSIVE Go(_, _)
        Go(i, acc) ==
            IF i > Len(responses) THEN acc
            ELSE LET ts == responses[i].tasks
                     RECURSIVE Add(_, _)
                     Add(j, a) == IF j > Len(ts) THEN a ELSE Add(j + 1, Append(a, ts[j]))
                 IN Go(i + 1, Add(1, acc))
    IN Go(1, <<>>)

\* a variant of the timeout answer that carries the responses collected so far
TimeoutBody_partial(responses) == MergeTasks(responses)

\* the tasks GetAllTasks' timeout branch writes to the client: the 408 answer
\* has an error text and no data
TimeoutBody(responses) == NoTasks

\* GetAllTasks up to the registration of the pending request
GetAllTasks(r) ==
    /\ hpc[r] = "idle"
    /\ IF GetOnlineNodes = {}
       THEN /\ result' = [result EXCEPT ![r] = [code |-> 200, tasks |-> NoTasks, nil |-> FALSE]]
            /\ hpc' = [hpc EXCEPT ![r] = "done"]
            /\ UNCHANGED <<pending, hNodes>>
       ELSE /\ pending' = [pending EXCEPT ![r] =
                    [exists |-> TRUE, responses |-> <<>>,
                     expected |-> Cardinality(GetOnlineNodes)]]
            /\ hNodes' = [hNodes EXCEPT ![r] = GetOnlineNodes]
            /\ hpc' = [hpc EXCEPT ![r] = "send"]
            /\ UNCHANGED result
    /\ UNCHANGED <<hubVars, respChan, sentCount, inflight, collected, detailVars>>

\* one iteration of the sending loop: node w of the snapshot; the frame is written
\* when w has a hub entry, and the write succeeds (ok) or fails
SendGetTasks(r, w, ok) ==
    /\ hpc[r] = "send"
    /\ w \in hNodes[r]
    /\ hNodes' = [hNodes EXCEPT ![r] = @ \ {w}]
    /\ IF w \in nodeConns /\ ok
       THEN /\ sentCount' = [sentCount EXCEPT ![r] = @ + 1]
            /\ inflight' = inflight \cup {<<w, r>>}
       ELSE UNCHANGED <<sentCount, inflight>>
    /\ UNCHANGED <<hubVars, pending, respChan, hpc, result, collected, detailVars>>

\* after the loop: nothing sent -> empty answer; else ExpectedNodes = sentCount
AfterSend(r) ==
    /\ hpc[r] = "send"
    /\ hNodes[r] = {}
    /\ IF sentCount[r] = 0
       THEN /\ pending' = [pending EXCEPT ![r] = NoPending]
            /\ result' = [result EXCEPT ![r] = [code |-> 200, tasks |-> NoTasks, nil |-> FALSE]]
            /\ hpc' = [hpc EXCEPT ![r] = "done"]
       ELSE /\ pending' = [pending EXCEPT ![r] =
                    IF @.exists THEN [@ EXCEPT !.expected = sentCount[r]] ELSE @]
            /\ hpc' = [hpc EXCEPT ![r] = "wait"]
            /\ UNCHANGED result
    /\ UNCHANGED <<hubVars, respChan, hNodes, sentCount, inflight, collected, detailVars>>

\* the select's first case: a value (or the closing) of responseChan
ReceiveResponses(r) ==
    /\ hpc[r] = "wait"
    /\ \/ /\ respChan[r].buf # <<>>
          /\ result' = [result EXCEPT ![r] = [code |-> 200, tasks |-> respChan[r].buf[1], nil |-> FALSE]]
          /\ respChan' = [respChan EXCEPT ![r].buf = <<>>]
       \/ /\ respChan[r].buf = <<>>
          /\ respChan[r].closed
          /\ result' = [result EXCEPT ![r] = [code |-> 200, tasks |-> NoTasks, nil |-> TRUE]]
          /\ UNCHANGED respChan
    /\ hpc' = [hpc EXCEPT ![r] = "done"]
    /\ UNCHANGED <<hubVars, pending, hNodes, sentCount, inflight, collected, detailVars>>

\* the select's second case: time.After fired
Timeout(r) ==
    /\ hpc[r] = "wait"
    /\ result' = [result EXCEPT ![r] =
            [code |-> 408, tasks |-> TimeoutBody(pending[r].responses), nil |-> FALSE]]
    /\ pending' = [pending EXCEPT ![r] = NoPending]
    /\ hpc' = [hpc EXCEPT ![r] = "done"]
    /\ UNCHANGED <<hubVars, respChan, hNodes, sentCount, inflight, collected, detailVars>>

\* handleTasksResponse(nodeID, payload) for a payload naming request r
handleTasksResponse(w, r, tasks) ==
    IF ~pending[r].exists
    THEN UNCHANGED <<pending, respChan, collected>>
    ELSE LET resp == [node |-> w, tasks |-> tasks]
             rs == Append(pending[r].responses, resp)
         IN
          /\ collected' = [collected EXCEPT ![r] = Append(@, resp)]
          /\ IF Len(rs) >= pending[r].expected
             THEN /\ respChan' = [respChan EXCEPT ![r].buf =
                          IF @ = <<>> THEN <<MergeTasks(rs)>> ELSE @]
                  /\ pending' = [pending EXCEPT ![r] = NoPending]
             ELSE /\ pending' = [pending EXCEPT ![r].responses = rs]
                  /\ UNCHANGED respChan

\* worker w answers a get_tasks frame with n tasks and the gateway's read loop
\* hands the tasks_response to handleTasksResponse
TasksResponse(w, r, n) ==
    /\ <<w, r>> \in inflight
    /\ wsPc[w] = "reading"
    /\ inflight' = inflight \ {<<w, r>>}
    /\ handleTasksResponse(w, r, WorkerTaskList(w, n))
    /\ UNCHANGED <<hubVars, hpc, hNodes, sentCount, result, detailVars>>

\* one pass of cleanupExpiredRequests over a request older than 30 s
cleanupExpiredRequests(r) ==
    /\ pending[r].exists
    /\ respChan' = [respChan EXCEPT ![r].closed = TRUE]
    /\ pending' = [pending EXCEPT ![r] = NoPending]
    /\ UNCHANGED <<hubVars, hpc, hNodes, sentCount, inflight, result, collected, detailVars>>

\* GetTaskDetail's loop: get_task_detail is written to the online workers that
\* have a hub entry; the writes to the workers of failed fail
GetTaskDetail(failed) ==
    /\ detailPc = "idle"
    /\ failed \subseteq (GetOnlineNodes \cap nodeConns)
    /\ detailSent' = (GetOnlineNodes \cap nodeConns) \ failed
    /\ detailPc' = "sent"
    /\ UNCHANGED <<hubVars, reqVars, detailResult, detailLog>>

\* GetTaskDetail's answer, written right after the loop
DetailAnswer ==
    /\ detailPc = "sent"
    /\ detailResult' = "not_found"
    /\ detailPc' = "done"
    /\ UNCHANGED <<hubVars, reqVars, detailSent, detailLog>>

\* worker w answers task_detail_response{found}; handleTaskDetailResponse logs it
handleTaskDetailResponse(w, found) ==
    /\ w \in detailSent
    /\ wsPc[w] = "reading"
    /\ detailSent' = detailSent \ {w}
    /\ detailLog' = detailLog \cup {[node |-> w, found |-> found]}
    /\ UNCHANGED <<hubVars, reqVars, detailPc, detailResult>>

NextFanout ==
    \/ \E w \in Workers : NodeConnect(w) /\ UNCHANGED <<peerVars, workerVars, otherVars>>
    \/ \E w \in Workers : NodeDisconnect(w) /\ UNCHANGED <<peerVars, workerVars, otherVars>>
    \/ \E w \in Workers : NodeRemove(w) /\ UNCHANGED <<peerVars, workerVars, otherVars>>
    \/ \E r \in Requests : GetAllTasks(r) /\ UNCHANGED <<peerVars, workerVars, otherVars>>
    \/ \E r \in Requests, w \in Workers, ok \in BOOLEAN : SendGetTasks(r, w, ok) /\ UNCHANGED <<peerVars, workerVars, otherVars>>
    \/ \E r \in Requests : AfterSend(r) /\ UNCHANGED <<peerVars, workerVars, otherVars>>
    \/ \E r \in Requests : ReceiveResponses(r) /\ UNCHANGED <<peerVars, workerVars, otherVars>>
    \/ \E r \in Requests : Timeout(r) /\ UNCHANGED <<peerVars, workerVars, otherVars>>
    \/ \E r \in Requests, w \in Workers, n \in 0..MaxList : TasksResponse(w, r, n) /\ UNCHANGED <<peerVars, workerVars, otherVars>>
    \/ \E r \in Requests : cleanupExpiredRequests(r) /\ UNCHANGED <<peerVars, workerVars, otherVars>>
    \/ \E failed \in SUBSET Workers : GetTaskDetail(failed) /\ UNCHANGED <<peerVars, workerVars, otherVars>>
    \/ DetailAnswer /\ UNCHANGED <<peerVars, workerVars, otherVars>>
    \/ \E w \in Workers, found \in BOOLEAN : handleTaskDetailResponse(w, found) /\ UNCHANGED <<peerVars, workerVars, otherVars>>

(***************************************************************************)
(* Worker: task repository and download work units                         *)
(***************************************************************************)
NoRecord == [status |-> "absent", progress |-> 0, files |-> "none", playlist |-> FALSE, segments |-> FALSE, own |-> TRUE]
FreeUnit == [pc |-> "free", task |-> 0, rec |-> NoRecord]
FreeT == [pc |-> "free", task |-> 0]

InitWorker ==
    /\ repo = [t \in RepoIds |-> NoRecord]
    /\ units = [u \in UnitIds |-> FreeUnit]
    /\ activeTasks = {}
    /\ bytes = [t \in RepoIds |-> 0]
    /\ hasVideo \in {f \in [RepoIds -> BOOLEAN] : \A t \in RepoIds \ TaskIds : f[t]}
    /\ statusChan = <<>>
    /\ tunits = [k \in JobIds |-> FreeT]
    /\ jobs = [k \in JobIds |-> "none"]
    /\ tcChan = <<>>
    /\ gwStatuses = <<>>
    /\ startResult = "none"
    /\ restored = [t \in RepoIds |-> 0]

\* TaskRepository.GetActiveTasksCount(workerID)
GetActiveTasksCount ==
    Cardinality({t \in RepoIds : repo[t].own /\ repo[t].status \in {"pending", "downloading", "transcoding"}})

UpdateStatus_upsert(rp, t, s) == [rp EXCEPT ![t].status = s]

\* TaskRepository.UpdateStatus: only the status of an existing record
UpdateStatus(rp, t, s) == IF rp[t].status = "absent" THEN rp ELSE [rp EXCEPT ![t].status = s]

\* TaskRepository.UpdateProgress: only the progress of an existing record
UpdateProgress(rp, t, p) == IF rp[t].status = "absent" THEN rp ELSE [rp EXCEPT ![t].progress = p]

\* TaskRepository.Update: the whole record is put under the task's id
Update(rp, t, rec) == [rp EXCEPT ![t] = rec]

\* a variant of the admission test that admits one more task
AtCap_above(count) == count > maxTasks

\* StartDownload's admission test
AtCap(count) == count >= maxTasks

HasFreeUnit == \E u \in UnitIds : units[u].pc = "free"

\* go m.downloadTask(task): a new unit holding the task object rec
SpawnUnit(us, t, rec) ==
    LET u == CHOOSE x \in UnitIds : us[x].pc = "free" /\ \A y \in UnitIds : y < x => us[y].pc # "free"
    IN [us EXCEPT ![u] = [pc |-> "add", task |-> t, rec |-> rec]]

\* a finished unit's task object goes away once no event in the channel points to it
Release(us, ch) ==
    [u \in UnitIds |->
        IF us[u].pc = "done" /\ \A i \in 1..Len(ch) : ch[i] # u THEN FreeUnit ELSE us[u]]

\* generateTaskID: a fresh id of the pool
NextTaskId(pool) ==
    CHOOSE t \in pool : repo[t].status = "absent" /\ \A x \in pool : x < t => repo[x].status # "absent"

\* Manager.StartDownload(magnetURL), task ids drawn from pool
StartDownload(pool) ==
    IF AtCap(GetActiveTasksCount)
    THEN /\ startResult' = "limit"
         /\ UNCHANGED <<repo, units>>
    ELSE /\ \E t \in pool : repo[t].status = "absent"
         /\ HasFreeUnit
         /\ LET t == NextTaskId(pool)
                rec == [NoRecord EXCEPT !.status = "pending"]
            IN /\ repo' = [repo EXCEPT ![t] = rec]
               /\ units' = SpawnUnit(units, t, rec)
         /\ startResult' = "ok"

\* Worker.handleTaskSubmit: StartDownload, then the task_status frame to the gateway
handleTaskSubmit(pool) ==
    /\ StartDownload(pool)
    /\ gwStatuses' = IF startResult' = "ok"
                     THEN Append(gwStatuses, [task |-> NextTaskId(pool), status |-> "downloading", progress |-> 0])
                     ELSE gwStatuses
    /\ UNCHANGED <<activeTasks, bytes, hasVideo, statusChan, tcVars, restored>>

\* Manager.PauseTask(taskID)
PauseTask(t) ==
    /\ activeTasks' = activeTasks \ {t}
    /\ repo' = UpdateStatus(repo, t, "paused")
    /\ UNCHANGED <<units, bytes, hasVideo, statusChan, tcVars, histVars>>

\* Manager.ResumeTask(taskID): a unit is started with the record just read
ResumeTask(t) ==
    /\ repo[t].status = "paused"
    /\ HasFreeUnit
    /\ units' = SpawnUnit(units, t, repo[t])
    /\ UNCHANGED <<repo, activeTasks, bytes, hasVideo, statusChan, tcVars, histVars>>

\* downloadTask up to the wait for the metadata: AddMagnet (ok or not), the
\* handle stored, status downloading (error) written with Update, the event sent
AddMagnet(u, ok) ==
    /\ units[u].pc = "add"
    /\ Len(statusChan) < ChanCap
    /\ LET t == units[u].task
           rec == [units[u].rec EXCEPT !.status = IF ok THEN "downloading" ELSE "error"]
       IN /\ repo' = Update(repo, t, rec)
          /\ activeTasks' = IF ok THEN activeTasks \cup {t} ELSE activeTasks
          /\ units' = [units EXCEPT ![u] = [pc |-> IF ok THEN "info" ELSE "done", task |-> t, rec |-> rec]]
    /\ statusChan' = Append(statusChan, u)
    /\ UNCHANGED <<bytes, hasVideo, tcVars, histVars>>

\* <-t.GotInfo() returns: the file inventory is set and the record written with Update
GotInfo(u) ==
    /\ units[u].pc = "info"
    /\ LET t == units[u].task
           rec == [units[u].rec EXCEPT !.files = IF hasVideo[t] THEN "video" ELSE "other"]
       IN /\ repo' = Update(repo, t, rec)
          /\ units' = [units EXCEPT ![u] = [pc |-> "loop", task |-> t, rec |-> rec]]
    /\ UNCHANGED <<activeTasks, bytes, hasVideo, statusChan, tcVars, histVars>>

\* a tick, first part: the persisted status is read again; the unit returns when
\* it is not downloading, else the progress is computed from BytesCompleted
TickRead(u) ==
    /\ units[u].pc = "loop"
    /\ LET t == units[u].task IN
        IF repo[t].status # "downloading"
        THEN units' = Release([units EXCEPT ![u].pc = "done"], statusChan)
        ELSE units' = [units EXCEPT ![u].pc = "prog",
                                    ![u].rec.progress = (bytes[t] * 100) \div TorrentSize]
    /\ UNCHANGED <<repo, activeTasks, bytes, hasVideo, statusChan, tcVars, histVars>>

\* a tick, second part: UpdateProgress; below 100 the event is sent, at 100 the
\* task object's status is set to completed
TickUpdateProgress(u) ==
    /\ units[u].pc = "prog"
    /\ LET t == units[u].task
           p == units[u].rec.progress
       IN /\ repo' = UpdateProgress(repo, t, p)
          /\ IF p >= 100
             THEN /\ units' = [units EXCEPT ![u].pc = "complete", ![u].rec.status = "completed"]
                  /\ UNCHANGED statusChan
             ELSE /\ Len(statusChan) < ChanCap
                  /\ statusChan' = Append(statusChan, u)
                  /\ units' = [units EXCEPT ![u].pc = "loop"]
    /\ UNCHANGED <<activeTasks, bytes, hasVideo, tcVars, histVars>>

\* a tick, last part at 100: Update with status completed, the handle forgotten,
\* the event sent, the unit returns
TickComplete(u) ==
    /\ units[u].pc = "complete"
    /\ Len(statusChan) < ChanCap
    /\ LET t == units[u].task IN
        /\ repo' = Update(repo, t, units[u].rec)
        /\ activeTasks' = activeTasks \ {t}
    /\ units' = [units EXCEPT ![u].pc = "done"]
    /\ statusChan' = Append(statusChan, u)
    /\ UNCHANGED <<bytes, hasVideo, tcVars, histVars>>

\* the torrent client completes one more byte of a torrent it holds
TorrentProgress(t) ==
    /\ t \in activeTasks
    /\ bytes[t] < TorrentSize
    /\ bytes' = [bytes EXCEPT ![t] = @ + 1]
    /\ UNCHANGED <<repo, units, activeTasks, hasVideo, statusChan, tcVars, histVars>>

(***************************************************************************)
(* Worker: status relay and transcoding                                    *)
(***************************************************************************)
HasFreeJob == \E k \in DOMAIN jobs : tunits[k].pc = "free" /\ jobs[k] = "none"

\* a finished job is forgotten once its goroutines returned and no event points to it
ReleaseJobs(tu, js, ch) ==
    [k \in DOMAIN js |->
        IF tu[k].pc = "free" /\ js[k] \in {"completed", "error"} /\ \A i \in 1..Len(ch) : ch[i] # k
        THEN "none" ELSE js[k]]

\* statusMonitor receives one event and calls Worker.handleDownloadStatusChange
\* with the task object the event points to, as it is now
statusMonitor ==
    /\ statusChan # <<>>
    /\ LET u == Head(statusChan)
           t == units[u].task
           obj == units[u].rec
       IN
        /\ statusChan' = Tail(statusChan)
        /\ units' = Release(units, Tail(statusChan))
        /\ IF obj.status = "completed"
           THEN IF obj.files = "video"
                THEN /\ HasFreeJob
                     /\ LET k == CHOOSE x \in DOMAIN jobs : tunits[x].pc = "free" /\ jobs[x] = "none"
                        IN tunits' = [tunits EXCEPT ![k] = [pc |-> "start", task |-> t]]
                     /\ UNCHANGED repo
                ELSE /\ repo' = UpdateStatus(repo, t, "ready")
                     /\ UNCHANGED tunits
           ELSE UNCHANGED <<repo, tunits>>
    /\ UNCHANGED <<activeTasks, bytes, hasVideo, jobs, tcChan, histVars>>

\* startTranscodingForTask, first statement: status transcoding
startTranscodingForTask(k) ==
    /\ tunits[k].pc = "start"
    /\ repo' = UpdateStatus(repo, tunits[k].task, "transcoding")
    /\ tunits' = [tunits EXCEPT ![k].pc = "call"]
    /\ UNCHANGED <<dlVars, jobs, tcChan, histVars>>

\* transcoder StartTranscode: rejected at the job cap (status error), else the job
\* is created pending and the monitor started
StartTranscode(k) ==
    /\ tunits[k].pc = "call"
    /\ IF Cardinality({j \in DOMAIN jobs : jobs[j] \in {"pending", "processing"}}) >= maxTranscodes
       THEN /\ repo' = UpdateStatus(repo, tunits[k].task, "error")
            /\ tunits' = [tunits EXCEPT ![k] = FreeT]
            /\ UNCHANGED jobs
       ELSE /\ jobs' = [jobs EXCEPT ![k] = "pending"]
            /\ tunits' = [tunits EXCEPT ![k].pc = "monitor"]
            /\ UNCHANGED repo
    /\ UNCHANGED <<dlVars, tcChan, histVars>>

\* transcodeTask, first part: status processing, the event sent
transcodeTask(k) ==
    /\ jobs[k] = "pending"
    /\ Len(tcChan) < ChanCap
    /\ jobs' = [jobs EXCEPT ![k] = "processing"]
    /\ tcChan' = Append(tcChan, k)
    /\ UNCHANGED <<repo, dlVars, tunits, histVars>>

\* transcodeTask, second part: the transcode ended (ok or not), the event sent
transcodeDone(k, ok) ==
    /\ jobs[k] = "processing"
    /\ Len(tcChan) < ChanCap
    /\ jobs' = [jobs EXCEPT ![k] = IF ok THEN "completed" ELSE "error"]
    /\ tcChan' = Append(tcChan, k)
    /\ UNCHANGED <<repo, dlVars, tunits, histVars>>

\* monitorTranscodingProgress of slot k receives one event of the shared channel:
\* another job's event is skipped; its own job completed -> saveTranscodingResults
\* (the record read and written back with the playlist path and the segments
\* readSegmentsFromM3U8 found: none when the playlist cannot be read or lists no
\* .ts line, which is only logged); error -> status error
monitorTranscodingProgress(k) ==
    /\ tunits[k].pc = "monitor"
    /\ tcChan # <<>>
    /\ tcChan' = Tail(tcChan)
    /\ LET e == Head(tcChan)
           t == tunits[k].task
       IN IF e # k \/ jobs[k] \notin {"completed", "error"}
          THEN /\ jobs' = ReleaseJobs(tunits, jobs, Tail(tcChan))
               /\ UNCHANGED <<repo, tunits>>
          ELSE IF jobs[k] = "completed" /\ repo[t].status # "absent"
               THEN /\ \E segs \in BOOLEAN :
                        repo' = Update(repo, t, [repo[t] EXCEPT !.playlist = TRUE, !.segments = segs])
                    /\ tunits' = [tunits EXCEPT ![k].pc = "saved"]
                    /\ UNCHANGED jobs
               ELSE /\ repo' = UpdateStatus(repo, t, "error")
                    /\ tunits' = [tunits EXCEPT ![k] = FreeT]
                    /\ jobs' = ReleaseJobs(tunits', jobs, Tail(tcChan))
    /\ UNCHANGED <<dlVars, histVars>>

\* monitorTranscodingProgress after the results were saved: status ready
monitorReady(k) ==
    /\ tunits[k].pc = "saved"
    /\ repo' = UpdateStatus(repo, tunits[k].task, "ready")
    /\ tunits' = [tunits EXCEPT ![k] = FreeT]
    /\ jobs' = ReleaseJobs(tunits', jobs, tcChan)
    /\ UNCHANGED <<dlVars, tcChan, histVars>>

\* the i-th task of a GetByStatus result (key order)
Nth(S, i) == CHOOSE t \in S : Cardinality({x \in S : x < t}) = i - 1

\* the worker process ends and is started again: goroutines, handles and channels
\* are gone, the repository and the torrent data stay; Manager.Start runs
\* restoreActiveTasks: one unit per task found downloading, each handed the address
\* of the loop variable, which holds that task or, by the time the unit reads it,
\* a later task of the list
Restart ==
    LET found == {t \in RepoIds : repo[t].status = "downloading"} IN
    /\ Cardinality(found) <= MaxUnit
    /\ \E target \in [found -> found] :
        /\ \A t \in found : target[t] >= t
        /\ units' = [u \in UnitIds |->
                        IF u <= Cardinality(found)
                        THEN [pc |-> "add", task |-> target[Nth(found, u)], rec |-> repo[target[Nth(found, u)]]]
                        ELSE FreeUnit]
        /\ restored' = [t \in RepoIds |-> IF t \in found THEN target[t] ELSE 0]
    /\ activeTasks' = {}
    /\ statusChan' = <<>>
    /\ tunits' = [k \in JobIds |-> FreeT]
    /\ jobs' = [k \in JobIds |-> "none"]
    /\ tcChan' = <<>>
    /\ UNCHANGED <<repo, bytes, hasVideo, gwStatuses, startResult>>

NextWorker ==
    \/ handleTaskSubmit(TaskIds) /\ UNCHANGED <<peerVars, fanoutVars, otherVars>>
    \/ \E t \in TaskIds : PauseTask(t) /\ UNCHANGED <<peerVars, fanoutVars, otherVars>>
    \/ \E t \in TaskIds : ResumeTask(t) /\ UNCHANGED <<peerVars, fanoutVars, otherVars>>
    \/ \E u \in UnitIds, ok \in BOOLEAN : AddMagnet(u, ok) /\ UNCHANGED <<peerVars, fanoutVars, otherVars>>
    \/ \E u \in UnitIds : GotInfo(u) /\ UNCHANGED <<peerVars, fanoutVars, otherVars>>
    \/ \E u \in UnitIds : TickRead(u) /\ UNCHANGED <<peerVars, fanoutVars, otherVars>>
    \/ \E u \in UnitIds : TickUpdateProgress(u) /\ UNCHANGED <<peerVars, fanoutVars, otherVars>>
    \/ \E u \in UnitIds : TickComplete(u) /\ UNCHANGED <<peerVars, fanoutVars, otherVars>>
    \/ \E t \in TaskIds : TorrentProgress(t) /\ UNCHANGED <<peerVars, fanoutVars, otherVars>>
    \/ statusMonitor /\ UNCHANGED <<peerVars, fanoutVars, otherVars>>
    \/ \E k \in JobIds : startTranscodingForTask(k) /\ UNCHANGED <<peerVars, fanoutVars, otherVars>>
    \/ \E k \in JobIds : StartTranscode(k) /\ UNCHANGED <<peerVars, fanoutVars, otherVars>>
    \/ \E k \in JobIds : transcodeTask(k) /\ UNCHANGED <<peerVars, fanoutVars, otherVars>>
    \/ \E k \in JobIds, ok \in BOOLEAN : transcodeDone(k, ok) /\ UNCHANGED <<peerVars, fanoutVars, otherVars>>
    \/ \E k \in JobIds : monitorTranscodingProgress(k) /\ UNCHANGED <<peerVars, fanoutVars, otherVars>>
    \/ \E k \in JobIds : monitorReady(k) /\ UNCHANGED <<peerVars, fanoutVars, otherVars>>
    \/ Restart /\ UNCHANGED <<peerVars, fanoutVars, otherVars>>

\* a repository as a run of the worker can have left it on disk
PersistedRecords ==
    {NoRecord}
    \cup {[NoRecord EXCEPT !.status = s] : s \in {"pending", "downloading", "transcoding"}}
    \cup {[NoRecord EXCEPT !.status = "ready", !.progress = 100]}
    \cup {[NoRecord EXCEPT !.status = "downloading", !.own = FALSE]}

\* the worker is started on a persisted repository and receives task_submit messages
InitAdmission ==
    /\ InitPeer
    /\ InitFanout
    /\ InitFile
    /\ InitRegistry
    /\ InitLink
    /\ repo \in [RepoIds -> PersistedRecords]
    /\ units = [u \in UnitIds |-> FreeUnit]
    /\ activeTasks = {}
    /\ bytes = [t \in RepoIds |-> 0]
    /\ hasVideo = [t \in RepoIds |-> TRUE]
    /\ statusChan = <<>>
    /\ tunits = [k \in JobIds |-> FreeT]
    /\ jobs = [k \in JobIds |-> "none"]
    /\ tcChan = <<>>
    /\ gwStatuses = <<>>
    /\ startResult = "none"
    /\ restored = [t \in RepoIds |-> 0]

NextAdmission ==
    \/ handleTaskSubmit(RepoIds) /\ UNCHANGED <<peerVars, fanoutVars, otherVars>>
    \/ Restart /\ UNCHANGED <<peerVars, fanoutVars, otherVars>>

Init == InitPeer /\ InitFanout /\ InitWorker /\ InitFile /\ InitRegistry /\ InitLink

Next == NextPeer \/ NextFanout \/ NextWorker \/ NextFile \/ NextRegistry

Spec == Init /\ [][Next]_vars

SpecPeer == Init /\ [][NextPeer]_vars

SpecFanout == Init /\ [][NextFanout]_vars

SpecWorker == Init /\ [][NextWorker]_vars

SpecAdmission == InitAdmission /\ [][NextAdmission]_vars

\* a worker that holds a transcoded video, no file request received yet
InitServing == InitPeer /\ InitFanout /\ InitWorker /\ InitRegistry /\ InitLink /\ InitFileServer

SpecFile == InitServing /\ [][NextFile]_vars

SpecRegistry == Init /\ [][NextRegistry]_vars

\* a handler finds the worker's hub entry and calls conn.WriteJSON on it
BeginWrite(h, w) ==
    /\ w \in nodeConns
    /\ h \notin writing[w]
    /\ writing' = [writing EXCEPT ![w] = @ \cup {h}]

\* conn.WriteJSON returns
EndWrite(h, w) ==
    /\ h \in writing[w]
    /\ writing' = [writing EXCEPT ![w] = @ \ {h}]

NextWrites ==
    \/ \E w \in Workers : NodeConnect(w) /\ UNCHANGED <<peerVars, workerVars, otherVars>>
    \/ \E w \in Workers : NodeDisconnect(w) /\ UNCHANGED <<peerVars, workerVars, otherVars>>
    \/ \E w \in Workers : NodeRemove(w) /\ UNCHANGED <<peerVars, workerVars, otherVars>>
    \/ \E h \in Writers, w \in Workers :
          /\ BeginWrite(h, w)
          /\ UNCHANGED <<peerVars, fanoutVars, workerVars, fileVars, regVars, sessVars, moreVars,
                         iceVars, linkVars, stopLog>>
    \/ \E h \in Writers, w \in Workers :
          /\ EndWrite(h, w)
          /\ UNCHANGED <<peerVars, fanoutVars, workerVars, fileVars, regVars, sessVars, moreVars,
                         iceVars, linkVars, stopLog>>

SpecWrites == Init /\ [][NextWrites]_vars

\* readLoop reads a webrtc_offer for session s and starts its handler goroutine
ReadOffer(s) ==
    /\ s \notin offered
    /\ offered' = offered \cup {s}
    /\ UNCHANGED <<candidate, peerVars>>

\* the offer's handler goroutine runs: handleWebRTCOffer -> HandleOffer
OfferHandler(s, sdpOk) ==
    /\ s \in offered
    /\ offered' = offered \ {s}
    /\ HandleOffer(s, sdpOk)
    /\ UNCHANGED candidate

\* readLoop reads the ice_candidate of session s, after it has read the offer of
\* s, and starts its handler goroutine
ReadCandidate(s) ==
    /\ s \in offered \/ sessions[s] # 0
    /\ candidate[s] = "none"
    /\ candidate' = [candidate EXCEPT ![s] = "pending"]
    /\ UNCHANGED <<offered, peerVars>>

\* the candidate's handler goroutine runs: AddICECandidate(sessionID, candidate)
\* returns "session not found" without an entry, else adds the candidate to the
\* entry's peer-connection
AddICECandidate(s) ==
    /\ candidate[s] = "pending"
    /\ candidate' = [candidate EXCEPT ![s] = IF sessions[s] # 0 THEN "applied" ELSE "lost"]
    /\ UNCHANGED <<offered, peerVars>>

NextIce ==
    \/ \E s \in SessionIds :
          /\ ReadOffer(s)
          /\ UNCHANGED <<fanoutVars, workerVars, fileVars, regVars, sessVars, moreVars, writeVars, linkVars, stopLog>>
    \/ \E s \in SessionIds, sdpOk \in BOOLEAN :
          /\ OfferHandler(s, sdpOk)
          /\ UNCHANGED <<fanoutVars, workerVars, fileVars, regVars, sessVars, moreVars, writeVars, linkVars, stopLog>>
    \/ \E s \in SessionIds :
          /\ ReadCandidate(s)
          /\ UNCHANGED <<fanoutVars, workerVars, fileVars, regVars, sessVars, moreVars, writeVars, linkVars, stopLog>>
    \/ \E s \in SessionIds :
          /\ AddICECandidate(s)
          /\ UNCHANGED <<fanoutVars, workerVars, fileVars, regVars, sessVars, moreVars, writeVars, linkVars, stopLog>>

SpecIce == Init /\ [][NextIce]_vars

\* the connection a new upgrade gets: the lowest one not used yet
FreshConn == CHOOSE c \in ConnIds : connPc[c] = "none" /\ \A d \in ConnIds : d < c => connPc[d] # "none"

\* the hub's key set
HubKeys(entry) == {w \in Workers : entry[w] # 0}

\* HandleNodeWebSocket up to its read loop: the registration frame names worker
\* w; RegisterNode, then gc.nodeConns[id] = conn
WsRegister(w) ==
    /\ \E c \in ConnIds : connPc[c] = "none"
    /\ LET c == FreshConn IN
        /\ connPc' = [connPc EXCEPT ![c] = "reading"]
        /\ connWorker' = [connWorker EXCEPT ![c] = w]
        /\ hubEntry' = [hubEntry EXCEPT ![w] = c]
    /\ nodes' = [nodes EXCEPT ![w] = "online"]
    /\ nodeConns' = HubKeys(hubEntry')
    /\ UNCHANGED <<wsPc, reqVars, detailVars>>

\* the read loop of connection c ends on a read error:
\* delete(gc.nodeConns, nodeInfo.ID)
WsDeleteEntry(c) ==
    /\ connPc[c] = "reading"
    /\ connPc' = [connPc EXCEPT ![c] = "closing"]
    /\ hubEntry' = [hubEntry EXCEPT ![connWorker[c]] = 0]
    /\ nodeConns' = HubKeys(hubEntry')
    /\ UNCHANGED <<connWorker, nodes, wsPc, reqVars, detailVars>>

\* ... followed by gc.gateway.RemoveNode(nodeInfo.ID)
WsRemoveNode(c) ==
    /\ connPc[c] = "closing"
    /\ connPc' = [connPc EXCEPT ![c] = "done"]
    /\ nodes' = [nodes EXCEPT ![connWorker[c]] = "absent"]
    /\ UNCHANGED <<connWorker, hubEntry, nodeConns, wsPc, reqVars, detailVars>>

NextConn ==
    \/ \E w \in Workers :
          /\ WsRegister(w)
          /\ UNCHANGED <<peerVars, workerVars, fileVars, regVars, sessVars, writeVars,
                         iceVars, linkVars, stopLog, repoCall, lastVars>>
    \/ \E c \in ConnIds :
          /\ WsDeleteEntry(c)
          /\ UNCHANGED <<peerVars, workerVars, fileVars, regVars, sessVars, writeVars,
                         iceVars, linkVars, stopLog, repoCall, lastVars>>
    \/ \E c \in ConnIds :
          /\ WsRemoveNode(c)
          /\ UNCHANGED <<peerVars, workerVars, fileVars, regVars, sessVars, writeVars,
                         iceVars, linkVars, stopLog, repoCall, lastVars>>

SpecConn == Init /\ [][NextConn]_vars

RepoKeys == 1..MaxKey

\* TaskRepository.Create: the serialized task is put under its id
Create(rp, t, rec) == [rp EXCEPT ![t] = rec]

\* TaskRepository.GetByTaskID: "task not found" without data under the id,
\* else the deserialized task
GetByTaskID(rp, t) == [err |-> rp[t].status = "absent", task |-> rp[t]]

\* TaskRepository.GetByStatus: every record of the bucket whose status is s
GetByStatus(rp, s) == {t \in DOMAIN rp : rp[t].status # "absent" /\ rp[t].status = s}

\* TaskRepository.Delete: the key is deleted, present or not
Delete(rp, t) == [rp EXCEPT ![t] = NoRecord]

RepoCreate(t, st) ==
    /\ repo' = Create(repo, t, [NoRecord EXCEPT !.status = st])
    /\ repoCall' = [op |-> "Create", id |-> t, err |-> FALSE]

RepoUpdateStatus(t, st) ==
    /\ repo' = UpdateStatus(repo, t, st)
    /\ repoCall' = [op |-> "UpdateStatus", id |-> t, err |-> repo[t].status = "absent"]

RepoUpdateProgress(t, p) ==
    /\ repo' = UpdateProgress(repo, t, p)
    /\ repoCall' = [op |-> "UpdateProgress", id |-> t, err |-> repo[t].status = "absent"]

RepoDelete(t) ==
    /\ repo' = Delete(repo, t)
    /\ repoCall' = [op |-> "Delete", id |-> t, err |-> FALSE]

NextRepo ==
    \/ \E t \in RepoKeys, st \in {"pending", "downloading"} :
          /\ RepoCreate(t, st)
          /\ UNCHANGED <<peerVars, fanoutVars, dlVars, tcVars, histVars, fileVars, regVars,
                         sessVars, writeVars, iceVars, linkVars, stopLog, connVars, lastVars>>
    \/ \E t \in RepoKeys, st \in {"downloading", "completed", "error"} :
          /\ RepoUpdateStatus(t, st)
          /\ UNCHANGED <<peerVars, fanoutVars, dlVars, tcVars, histVars, fileVars, regVars,
                         sessVars, writeVars, iceVars, linkVars, stopLog, connVars, lastVars>>
    \/ \E t \in RepoKeys, p \in {0, 50} :
          /\ RepoUpdateProgress(t, p)
          /\ UNCHANGED <<peerVars, fanoutVars, dlVars, tcVars, histVars, fileVars, regVars,
                         sessVars, writeVars, iceVars, linkVars, stopLog, connVars, lastVars>>
    \/ \E t \in RepoKeys :
          /\ RepoDelete(t)
          /\ UNCHANGED <<peerVars, fanoutVars, dlVars, tcVars, histVars, fileVars, regVars,
                         sessVars, writeVars, iceVars, linkVars, stopLog, connVars, lastVars>>

SpecRepo == Init /\ [][NextRepo]_vars

\* Manager.RemoveTask(taskID): the handle is dropped and forgotten, the record deleted
RemoveTask(t) ==
    /\ activeTasks' = activeTasks \ {t}
    /\ repo' = Delete(repo, t)
    /\ UNCHANGED <<units, bytes, hasVideo, statusChan, tcVars, histVars>>

\* downloads with removal: tasks are submitted and removed while their units
\* run; generateTaskID never issues an id twice: MaxTask ids are issued in all
NextRemove ==
    \/ Len(gwStatuses) < MaxTask /\ handleTaskSubmit(TaskIds) /\ UNCHANGED <<peerVars, fanoutVars, otherVars>>
    \/ \E t \in TaskIds : RemoveTask(t) /\ UNCHANGED <<peerVars, fanoutVars, otherVars>>
    \/ \E u \in UnitIds, ok \in BOOLEAN : AddMagnet(u, ok) /\ UNCHANGED <<peerVars, fanoutVars, otherVars>>
    \/ \E u \in UnitIds : GotInfo(u) /\ UNCHANGED <<peerVars, fanoutVars, otherVars>>
    \/ \E u \in UnitIds : TickRead(u) /\ UNCHANGED <<peerVars, fanoutVars, otherVars>>
    \/ \E u \in UnitIds : TickUpdateProgress(u) /\ UNCHANGED <<peerVars, fanoutVars, otherVars>>
    \/ \E u \in UnitIds : TickComplete(u) /\ UNCHANGED <<peerVars, fanoutVars, otherVars>>
    \/ \E t \in TaskIds : TorrentProgress(t) /\ UNCHANGED <<peerVars, fanoutVars, otherVars>>
    \/ statusMonitor /\ UNCHANGED <<peerVars, fanoutVars, otherVars>>

SpecRemove == Init /\ [][NextRemove]_vars

\* close(m.statusChan) of the download manager has run
StatusClosed == \E i \in 1..Len(stopLog) : stopLog[i] = "downloader"

\* m.statusChan <- task on the closed channel: the send panics, the deferred
\* recover of downloadTask writes status error with Update and sends again
SendOnClosed(u) ==
    /\ StatusClosed
    /\ \/ units[u].pc \in {"add", "complete"}
       \/ units[u].pc = "prog" /\ units[u].rec.progress < 100
    /\ repo' = Update(repo, units[u].task, [units[u].rec EXCEPT !.status = "error"])
    /\ units' = [units EXCEPT ![u].pc = "panic", ![u].rec.status = "error"]
    /\ UNCHANGED <<activeTasks, bytes, hasVideo, statusChan, tcVars, histVars>>

\* downloads with shutdown: Worker.Stop runs while download units run; tasks
\* are submitted until the gateway link is closed
NextShutdown ==
    \/ stopLog = <<>> /\ handleTaskSubmit(TaskIds) /\ UNCHANGED <<peerVars, fanoutVars, otherVars>>
    \/ \E u \in UnitIds, ok \in BOOLEAN : ~StatusClosed /\ AddMagnet(u, ok) /\ UNCHANGED <<peerVars, fanoutVars, otherVars>>
    \/ \E u \in UnitIds : GotInfo(u) /\ UNCHANGED <<peerVars, fanoutVars, otherVars>>
    \/ \E u \in UnitIds : TickRead(u) /\ UNCHANGED <<peerVars, fanoutVars, otherVars>>
    \/ \E u \in UnitIds : (~StatusClosed \/ units[u].rec.progress >= 100) /\ TickUpdateProgress(u) /\ UNCHANGED <<peerVars, fanoutVars, otherVars>>
    \/ \E u \in UnitIds : ~StatusClosed /\ TickComplete(u) /\ UNCHANGED <<peerVars, fanoutVars, otherVars>>
    \/ \E u \in UnitIds : SendOnClosed(u) /\ UNCHANGED <<peerVars, fanoutVars, otherVars>>
    \/ \E t \in TaskIds : TorrentProgress(t) /\ UNCHANGED <<peerVars, fanoutVars, otherVars>>
    \/ statusMonitor /\ UNCHANGED <<peerVars, fanoutVars, otherVars>>
    \/ StopStep /\ UNCHANGED <<fanoutVars, workerVars, fileVars, regVars, sessVars, moreVars, writeVars, iceVars>>

SpecShutdown == Init /\ [][NextShutdown]_vars

\* the record of a task whose download unit waits in its tick loop
Downloading == [NoRecord EXCEPT !.status = "downloading", !.files = "video"]

\* the downloads that were started before and have reached their tick loops
Background == 1..(maxTasks - 1)

\* the worker after the downloads of Background were started; the units of
\* these tasks take no further step in the behaviours considered and are not
\* represented in units
InitCap ==
    /\ InitPeer
    /\ InitFanout
    /\ InitFile
    /\ InitRegistry
    /\ InitLink
    /\ repo = [t \in RepoIds |-> IF t \in Background THEN Downloading ELSE NoRecord]
    /\ activeTasks = Background
    /\ units = [u \in UnitIds |-> FreeUnit]
    /\ bytes = [t \in RepoIds |-> 0]
    /\ hasVideo = [t \in RepoIds |-> TRUE]
    /\ statusChan = <<>>
    /\ tunits = [k \in JobIds |-> FreeT]
    /\ jobs = [k \in JobIds |-> "none"]
    /\ tcChan = <<>>
    /\ gwStatuses = <<>>
    /\ startResult = "none"
    /\ restored = [t \in RepoIds |-> 0]

\* further downloads are started, paused and resumed
NextCap ==
    \/ handleTaskSubmit(RepoIds) /\ UNCHANGED <<peerVars, fanoutVars, otherVars>>
    \/ \E t \in RepoIds \ Background : PauseTask(t) /\ UNCHANGED <<peerVars, fanoutVars, otherVars>>
    \/ \E t \in RepoIds \ Background : ResumeTask(t) /\ UNCHANGED <<peerVars, fanoutVars, otherVars>>
    \/ \E u \in UnitIds, ok \in BOOLEAN : AddMagnet(u, ok) /\ UNCHANGED <<peerVars, fanoutVars, otherVars>>
    \/ \E u \in UnitIds : GotInfo(u) /\ UNCHANGED <<peerVars, fanoutVars, otherVars>>
    \/ \E u \in UnitIds : TickRead(u) /\ UNCHANGED <<peerVars, fanoutVars, otherVars>>
    \/ \E u \in UnitIds : TickUpdateProgress(u) /\ UNCHANGED <<peerVars, fanoutVars, otherVars>>
    \/ statusMonitor /\ UNCHANGED <<peerVars, fanoutVars, otherVars>>

SpecCap == InitCap /\ [][NextCap]_vars

SpecLink == Init /\ [][NextLink]_vars

\* the reconnect ticker keeps firing, and while the gateway is reachable a
\* dial and the registration write succeed again and again
SpecLinkFair ==
    /\ Init
    /\ [][NextLink]_vars
    /\ SF_vars(reconnectTick(TRUE, TRUE)
                /\ UNCHANGED <<peerVars, fanoutVars, workerVars, fileVars, regVars,
                               sessVars, moreVars, writeVars, iceVars>>)

\* Connect with its goroutines counted: a successful Connect leaves one more
\* connection open and starts one more reconnectLoop
Dial(dialOk, writeOk) ==
    /\ Connect(dialOk, writeOk)
    /\ loops' = IF dialOk /\ writeOk THEN loops + 1 ELSE loops
    /\ openConns' = IF dialOk /\ writeOk THEN openConns + 1 ELSE openConns

\* Worker.Start: the first Connect
WorkerConnect(dialOk, writeOk) ==
    /\ ~stopped /\ ~connected /\ loops = 0
    /\ Dial(dialOk, writeOk)
    /\ UNCHANGED dialing

\* reconnectLoop, a tick of one of the loops: IsConnected() returns false and
\* the loop enters Connect
LoopTick ==
    /\ loops - dialing > 0
    /\ ~stopped /\ ~connected
    /\ dialing' = dialing + 1
    /\ UNCHANGED <<linkVars, stopLog, loops, openConns>>

\* ... Connect of a loop that entered it
LoopConnect(dialOk, writeOk) ==
    /\ dialing > 0
    /\ registrations < MaxReg
    /\ Dial(dialOk, writeOk)
    /\ dialing' = dialing - 1

\* readLoop's ReadJSON fails: its deferred function closes the connection gc.conn names
LinkDrops ==
    /\ readLoopFails
    /\ openConns' = IF conn = "open" THEN openConns - 1 ELSE openConns
    /\ UNCHANGED <<loops, dialing>>

\* the link is established, drops and is re-established by the reconnect loops
NextReconnect ==
    \/ \E dialOk, writeOk \in BOOLEAN :
          /\ WorkerConnect(dialOk, writeOk)
          /\ UNCHANGED <<peerVars, fanoutVars, workerVars, fileVars, regVars, sessVars, writeVars,
                         iceVars, connVars, repoCall, relayVars>>
    \/ /\ LoopTick
       /\ UNCHANGED <<peerVars, fanoutVars, workerVars, fileVars, regVars, sessVars, writeVars,
                      iceVars, connVars, repoCall, relayVars>>
    \/ \E dialOk, writeOk \in BOOLEAN :
          /\ LoopConnect(dialOk, writeOk)
          /\ UNCHANGED <<peerVars, fanoutVars, workerVars, fileVars, regVars, sessVars, writeVars,
                         iceVars, connVars, repoCall, relayVars>>
    \/ /\ LinkDrops
       /\ UNCHANGED <<peerVars, fanoutVars, workerVars, fileVars, regVars, sessVars, writeVars,
                      iceVars, connVars, repoCall, relayVars>>
    \/ /\ SendMessage
       /\ UNCHANGED <<peerVars, fanoutVars, workerVars, fileVars, regVars, sessVars, writeVars,
                      iceVars, connVars, repoCall, lastVars>>

SpecReconnect == Init /\ [][NextReconnect]_vars

\* the node registry seen as the hub's node table: GetOnlineNodes reads the
\* status the registry holds
NodeStatus(reg) == [w \in Workers |-> reg[w].status]

\* the gateway with its clock: a worker connects and registers, heartbeats while
\* its connection is read, its connection closes and its record is removed, the
\* 30-second ticker sweeps (a sweep has run before each minute passes), and a
\* task list is requested from the online workers
NextGateway ==
    \/ \E w \in Workers :
          NodeConnect(w) /\ RegisterNode(w) /\ UNCHANGED <<peerVars, workerVars>>
    \/ \E w \in Workers :
          /\ wsPc[w] = "reading"
          /\ UpdateNodeHeartbeat(w)
          /\ nodes' = NodeStatus(registry')
          /\ UNCHANGED <<nodeConns, wsPc, reqVars, detailVars, peerVars, workerVars>>
    \/ \E w \in Workers : NodeDisconnect(w) /\ UNCHANGED <<peerVars, workerVars, otherVars>>
    \/ \E w \in Workers :
          /\ NodeRemove(w)
          /\ registry' = [registry EXCEPT ![w] = NoNode]
          /\ UNCHANGED <<now, hbResult, fileVars, restVars, peerVars, workerVars>>
    \/ /\ cleanupOfflineNodes
       /\ nodes' = NodeStatus(registry')
       /\ UNCHANGED <<nodeConns, wsPc, reqVars, detailVars, peerVars, workerVars>>
    \/ /\ now < MaxTime
       /\ now' = now + 1
       /\ registry' = Swept(registry, now)
       /\ nodes' = NodeStatus(registry')
       /\ UNCHANGED <<hbResult, fileVars, restVars, nodeConns, wsPc, reqVars, detailVars,
                      peerVars, workerVars>>
    \/ \E r \in Requests : GetAllTasks(r) /\ UNCHANGED <<peerVars, workerVars, otherVars>>
    \/ \E r \in Requests, w \in Workers, ok \in BOOLEAN :
          SendGetTasks(r, w, ok) /\ UNCHANGED <<peerVars, workerVars, otherVars>>
    \/ \E r \in Requests : AfterSend(r) /\ UNCHANGED <<peerVars, workerVars, otherVars>>
    \/ \E r \in Requests : Timeout(r) /\ UNCHANGED <<peerVars, workerVars, otherVars>>

SpecGateway == Init /\ [][NextGateway]_vars

\* CreateSignalingSession: the session object stored under the id
NewSession(c, w, t) ==
    [status |-> "negotiating", client |-> c, worker |-> w, createdAt |-> t]

\* handleClientMessage, "webrtc_offer": with a hub entry for the worker the
\* session is created under the id the client names
handleClientOffer(s, c, w) ==
    /\ w \in nodeConns
    /\ signaling' = [signaling EXCEPT ![s] = NewSession(c, w, sessionClock)]
    /\ UNCHANGED <<sessionClock, fileVars, regVars>>

\* HandleWebRTCOffer (POST): the session is created before the hub is looked up
HandleWebRTCOffer(s, c, w) ==
    /\ signaling' = [signaling EXCEPT ![s] = NewSession(c, w, sessionClock)]
    /\ UNCHANGED <<sessionClock, fileVars, regVars>>

\* UpdateSessionStatus(sessionID, status): an existing session takes the status
UpdateSessionStatus(s, st) ==
    /\ signaling' = [signaling EXCEPT ![s] =
                        IF @.status # "absent" THEN [@ EXCEPT !.status = st] ELSE @]
    /\ UNCHANGED <<sessionClock, fileVars, regVars>>

\* HandleWebRTCAnswer (POST): 404 without the session, else the answer is
\* forwarded and the session marked connected
HandleWebRTCAnswer(s) ==
    /\ signaling[s].status # "absent"
    /\ UpdateSessionStatus(s, "connected")

\* cleanupExpiredSessions: now.Sub(session.CreatedAt) > time.Hour
cleanupExpiredSessions ==
    /\ signaling' = [s \in SessionIds |->
                        IF /\ signaling[s].status # "absent"
                           /\ sessionClock - signaling[s].createdAt > SessionTTL
                        THEN NoSession ELSE signaling[s]]
    /\ UNCHANGED <<sessionClock, fileVars, regVars>>

\* half an hour passes
SessionTick ==
    /\ sessionClock < MaxSessionTime
    /\ sessionClock' = sessionClock + 1
    /\ UNCHANGED <<signaling, fileVars, regVars>>

NextSignaling ==
    \/ \E w \in Workers : NodeConnect(w) /\ UNCHANGED <<peerVars, workerVars, otherVars>>
    \/ \E w \in Workers : NodeDisconnect(w) /\ UNCHANGED <<peerVars, workerVars, otherVars>>
    \/ \E w \in Workers : NodeRemove(w) /\ UNCHANGED <<peerVars, workerVars, otherVars>>
    \/ \E s \in SessionIds, c \in Clients, w \in Workers :
          handleClientOffer(s, c, w) /\ UNCHANGED <<peerVars, fanoutVars, workerVars, lateVars>>
    \/ \E s \in SessionIds, c \in Clients, w \in Workers :
          HandleWebRTCOffer(s, c, w) /\ UNCHANGED <<peerVars, fanoutVars, workerVars, lateVars>>
    \/ \E s \in SessionIds : HandleWebRTCAnswer(s) /\ UNCHANGED <<peerVars, fanoutVars, workerVars, lateVars>>
    \/ \E s \in SessionIds, st \in {"negotiating", "connected", "closed"} :
          UpdateSessionStatus(s, st) /\ UNCHANGED <<peerVars, fanoutVars, workerVars, lateVars>>
    \/ cleanupExpiredSessions /\ UNCHANGED <<peerVars, fanoutVars, workerVars, lateVars>>
    \/ SessionTick /\ UNCHANGED <<peerVars, fanoutVars, workerVars, lateVars>>

SpecSignaling == Init /\ [][NextSignaling]_vars

\* HandleClientWebSocket up to its read loop: gc.clientConns[clientID] = conn
ClientConnect(c) ==
    /\ clientConns' = clientConns \cup {c}
    /\ UNCHANGED relayed

\* the client's read loop ends: delete(gc.clientConns, clientID)
ClientDisconnect(c) ==
    /\ c \in clientConns
    /\ clientConns' = clientConns \ {c}
    /\ UNCHANGED relayed

\* handleNodeMessage(nodeID, message), "webrtc_answer" and "ice_candidate": the
\* session the payload names is looked up and the message written to the
\* connection of the session's client
handleNodeMessage(w, type, s) ==
    /\ wsPc[w] = "reading"
    /\ relayed' = IF signaling[s].status # "absent" /\ signaling[s].client \in clientConns
                  THEN [type |-> type, session |-> s, from |-> w, bound |-> signaling[s].worker]
                  ELSE NoRelay
    /\ UNCHANGED clientConns

\* handleClientMessage(clientID, message), "ice_candidate": the session the
\* payload names is looked up and the message written to the connection of the
\* session's worker
handleClientCandidate(c, s) ==
    /\ c \in clientConns
    /\ relayed' = IF signaling[s].status # "absent" /\ signaling[s].worker \in nodeConns
                  THEN [type |-> "ice_candidate", session |-> s, from |-> c, bound |-> signaling[s].client]
                  ELSE NoRelay
    /\ UNCHANGED clientConns

\* the gateway relays signaling between connected clients and workers
NextRelay ==
    \/ \E w \in Workers : NodeConnect(w) /\ UNCHANGED <<peerVars, workerVars, otherVars>>
    \/ \E w \in Workers : NodeDisconnect(w) /\ UNCHANGED <<peerVars, workerVars, otherVars>>
    \/ \E w \in Workers : NodeRemove(w) /\ UNCHANGED <<peerVars, workerVars, otherVars>>
    \/ \E c \in Clients :
          /\ ClientConnect(c)
          /\ UNCHANGED <<peerVars, fanoutVars, workerVars, fileVars, regVars, sessVars, writeVars,
                         iceVars, linkVars, stopLog, connVars, repoCall, loopVars>>
    \/ \E c \in Clients :
          /\ ClientDisconnect(c)
          /\ UNCHANGED <<peerVars, fanoutVars, workerVars, fileVars, regVars, sessVars, writeVars,
                         iceVars, linkVars, stopLog, connVars, repoCall, loopVars>>
    \/ \E s \in SessionIds, c \in Clients, w \in Workers :
          /\ c \in clientConns
          /\ handleClientOffer(s, c, w)
          /\ UNCHANGED <<peerVars, fanoutVars, workerVars, lateVars>>
    \/ \E w \in Workers, type \in {"webrtc_answer", "ice_candidate"}, s \in SessionIds :
          /\ handleNodeMessage(w, type, s)
          /\ UNCHANGED <<peerVars, fanoutVars, workerVars, fileVars, regVars, sessVars, writeVars,
                         iceVars, linkVars, stopLog, connVars, repoCall, loopVars>>
    \/ \E c \in Clients, s \in SessionIds :
          /\ handleClientCandidate(c, s)
          /\ UNCHANGED <<peerVars, fanoutVars, workerVars, fileVars, regVars, sessVars, writeVars,
                         iceVars, linkVars, stopLog, connVars, repoCall, loopVars>>

SpecRelay == Init /\ [][NextRelay]_vars

\* the steps a download unit takes by itself once scheduled; the arrival of the
\* metadata (GotInfo) is the network's step, not the unit's
UnitStep(u) ==
    /\ \/ \E ok \in BOOLEAN : AddMagnet(u, ok)
       \/ TickRead(u)
       \/ TickUpdateProgress(u)
       \/ TickComplete(u)
    /\ UNCHANGED <<peerVars, fanoutVars, otherVars>>

\* the steps of the transcode goroutines of slot k
TranscodeStep(k) ==
    /\ \/ startTranscodingForTask(k)
       \/ StartTranscode(k)
       \/ transcodeTask(k)
       \/ \E ok \in BOOLEAN : transcodeDone(k, ok)
       \/ monitorTranscodingProgress(k)
       \/ monitorReady(k)
    /\ UNCHANGED <<peerVars, fanoutVars, otherVars>>

\* the worker with its goroutines scheduled fairly: every unit, the status
\* monitor and every transcode goroutine runs when it can; submissions, pauses,
\* restarts and the network are not forced
SpecWorkerFair ==
    /\ Init
    /\ [][NextWorker]_vars
    /\ \A u \in UnitIds : WF_vars(UnitStep(u))
    /\ WF_vars(statusMonitor /\ UNCHANGED <<peerVars, fanoutVars, otherVars>>)
    /\ \A k \in JobIds : WF_vars(TranscodeStep(k))

\* the transcode goroutines the worker can hold at once when several downloads
\* have completed: one more than the transcoder's job cap
TranscodeSlots == 1..(maxTranscodes + MaxJob)

\* the downloads of the tasks of S have completed with a video file and
\* handleDownloadStatusChange has started startTranscodingForTask for each
InitTranscode ==
    /\ InitPeer
    /\ InitFanout
    /\ InitFile
    /\ InitRegistry
    /\ InitLink
    /\ \E S \in (SUBSET TranscodeSlots) \ {{}} :
        /\ repo = [t \in RepoIds |->
                      IF t \in S
                      THEN [NoRecord EXCEPT !.status = "completed", !.progress = 100, !.files = "video"]
                      ELSE NoRecord]
        /\ bytes = [t \in RepoIds |-> IF t \in S THEN TorrentSize ELSE 0]
        /\ tunits = [k \in TranscodeSlots |->
                        IF k \in S THEN [pc |-> "start", task |-> k] ELSE FreeT]
    /\ units = [u \in UnitIds |-> FreeUnit]
    /\ activeTasks = {}
    /\ hasVideo = [t \in RepoIds |-> TRUE]
    /\ statusChan = <<>>
    /\ jobs = [k \in TranscodeSlots |-> "none"]
    /\ tcChan = <<>>
    /\ gwStatuses = <<>>
    /\ startResult = "none"
    /\ restored = [t \in RepoIds |-> 0]

NextTranscode ==
    \/ \E k \in TranscodeSlots : startTranscodingForTask(k) /\ UNCHANGED <<peerVars, fanoutVars, otherVars>>
    \/ \E k \in TranscodeSlots : StartTranscode(k) /\ UNCHANGED <<peerVars, fanoutVars, otherVars>>
    \/ \E k \in TranscodeSlots : transcodeTask(k) /\ UNCHANGED <<peerVars, fanoutVars, otherVars>>
    \/ \E k \in TranscodeSlots, ok \in BOOLEAN : transcodeDone(k, ok) /\ UNCHANGED <<peerVars, fanoutVars, otherVars>>
    \/ \E k \in TranscodeSlots : monitorTranscodingProgress(k) /\ UNCHANGED <<peerVars, fanoutVars, otherVars>>
    \/ \E k \in TranscodeSlots : monitorReady(k) /\ UNCHANGED <<peerVars, fanoutVars, otherVars>>

SpecTranscode == InitTranscode /\ [][NextTranscode]_vars

\* the transcode goroutines scheduled fairly: every goroutine of every slot
\* runs when it can
SpecTranscodeFair ==
    /\ InitTranscode
    /\ [][NextTranscode]_vars
    /\ \A k \in TranscodeSlots : WF_vars(TranscodeStep(k))

(***************************************************************************)
(* C1                                                                      *)
(***************************************************************************)
\* C1: for every session id at most one peer-connection exists on the worker at
\* any moment (a second offer for the session closes the first connection first).
C1_AtMostOnePeerConnection ==
    \A s \in SessionIds :
        Cardinality({p \in PcIds : pcSession[p] = s /\ PcExists(p)}) <= 1

(***************************************************************************)
(* C2 - C5: the request correlator                                         *)
(***************************************************************************)
\* the flat concatenation of the task lists of a sequence of responses
RECURSIVE ConcatAll(_)
ConcatAll(rs) == IF rs = <<>> THEN <<>> ELSE rs[1].tasks \o ConcatAll(Tail(rs))

\* the sum of the sizes of the task lists of a sequence of responses
RECURSIVE SumSizes(_)
SumSizes(rs) == IF rs = <<>> THEN 0 ELSE Len(rs[1].tasks) + SumSizes(Tail(rs))

\* C2: expected ends up equal to the number of workers the request was sent to;
\* as soon as that many responses have been collected the request completes with
\* the merged list, whatever the interleaving of responses, sending loop and the
\* update of expected; the timeout is taken only when fewer responses arrived.
C2_CompletesWhenAllAnswered ==
    \A r \in Requests :
        /\ (hpc[r] = "wait" /\ pending[r].exists) => pending[r].expected = sentCount[r]
        /\ (hpc[r] = "wait" /\ Len(collected[r]) >= sentCount[r]) => respChan[r].buf # <<>>
        /\ result[r].code = 408 => Len(collected[r]) < sentCount[r]

C5_DetailFoundIsReturned ==
    detailResult = "not_found" => ~(\E e \in detailLog : e.found)

(***************************************************************************)
(* C6 - C10: the worker's task pipeline                                    *)
(***************************************************************************)
\* C6: a StartDownload called while the count of active tasks is at or above the
\* cap returns the limit error, creates no task record and starts no download
\* unit: the repository is unchanged.
C6_AtCapRejected ==
    [][(GetActiveTasksCount >= maxTasks /\ handleTaskSubmit(RepoIds)) =>
            (startResult' = "limit" /\ repo' = repo /\ units' = units /\ gwStatuses' = gwStatuses)]_vars

\* a StartDownload was rejected with the limit error while the count is at the cap
C6_Witness == startResult = "limit" /\ GetActiveTasksCount >= maxTasks

\* the place of a status on the line pending, downloading, completed, transcoding, ready
StatusRank(s) ==
    CASE s = "pending" -> 1
      [] s = "downloading" -> 2
      [] s = "completed" -> 3
      [] s = "transcoding" -> 4
      [] s = "ready" -> 5
      [] OTHER -> 0

\* the status changes C7 admits: forward on the line, paused -> downloading,
\* anything -> error; taken as admitted too: the creation of the record and the
\* pause of a task that is pending or downloading
AllowedStatusChange(a, b) ==
    \/ a = b
    \/ b = "error"
    \/ a = "paused" /\ b = "downloading"
    \/ StatusRank(a) > 0 /\ StatusRank(b) > StatusRank(a)
    \/ a = "absent" /\ b = "pending"
    \/ a \in {"pending", "downloading"} /\ b = "paused"

\* C7: a task's persisted status only moves forward along pending, downloading,
\* completed, transcoding, ready, except paused -> downloading and any -> error.
C7_StatusMonotone ==
    [][\A t \in RepoIds : AllowedStatusChange(repo[t].status, repo'[t].status)]_vars

\* C8: in every persisted state of a task, progress = 100 if and only if the
\* status is completed, transcoding or ready.
C8_ProgressIffDone ==
    \A t \in RepoIds :
        repo[t].status # "absent" =>
            (repo[t].progress = 100 <=> repo[t].status \in {"completed", "transcoding", "ready"})

\* nothing of the worker's pipeline is left to run
WorkerIdle ==
    /\ \A u \in UnitIds : units[u].pc = "free"
    /\ statusChan = <<>>
    /\ \A k \in JobIds : tunits[k].pc = "free" /\ jobs[k] \notin {"pending", "processing"}
    /\ tcChan = <<>>

\* the task_status frames sent for task t, in sending order
StatusesOf(t) == SelectSeq(gwStatuses, LAMBDA e : e.task = t)

\* C9: for a task that downloaded and transcoded successfully the worker has sent
\* the gateway task_status frames in this order: downloading with progress 0,
\* then progress updates, then completed, then transcoding, then ready.
C9_StatusEventsInOrder ==
    \A t \in RepoIds :
        (repo[t].status = "ready" /\ repo[t].playlist /\ WorkerIdle) =>
            LET ev == StatusesOf(t) IN
                /\ Len(ev) >= 4
                /\ ev[1].status = "downloading" /\ ev[1].progress = 0
                /\ \E i, j, k \in 2..Len(ev) :
                        /\ i < j /\ j < k
                        /\ ev[i].status = "completed"
                        /\ ev[j].status = "transcoding"
                        /\ ev[k].status = "ready"

\* C10: on worker start, for every task found with persisted status downloading
\* exactly one download unit is started and it operates on that task's own
\* record: none is skipped, none is scheduled in place of another.
C10_RestoreOneUnitPerTask ==
    \A t \in RepoIds :
        restored[t] # 0 => Cardinality({x \in RepoIds : restored[x] = t}) = 1

(***************************************************************************)
(* C11 - C14: restart, metadata and transcoding                            *)
(***************************************************************************)
\* C11: across a worker start no task stays persisted as transcoding without a
\* transcode goroutine bound to it: the start resets it (to completed) or the
\* transcode trigger has fired for it again.
C11_TranscodingResetOnRestart ==
    [][Restart =>
            \A t \in RepoIds :
                repo[t].status = "transcoding" =>
                    \/ repo'[t].status # "transcoding"
                    \/ \E k \in JobIds : tunits'[k].pc # "free" /\ tunits'[k].task = t]_vars

\* C12: a download unit does not wait for the torrent metadata forever: when the
\* metadata does not arrive the wait ends (by the deadline, with status error).
C12_MetadataWaitEnds ==
    \A u \in UnitIds : (units[u].pc = "info") ~> (units[u].pc # "info")

\* C13: whenever a task is persisted ready and its file inventory holds a video
\* file, its playlist path is set and its segment list is non-empty.
C13_ReadyHasPlaylist ==
    \A t \in RepoIds :
        (repo[t].status = "ready" /\ repo[t].files = "video") =>
            (repo[t].playlist /\ repo[t].segments)

(***************************************************************************)
(* C14                                                                     *)
(***************************************************************************)
\* C14: a failure of the transcode puts the task in status error: once a job has
\* ended in error and none of its events is left in the status channel, the task
\* its monitor is bound to has status error.
C14_JobErrorBecomesTaskError ==
    \A k \in DOMAIN jobs :
        (/\ jobs[k] = "error"
         /\ tunits[k].pc = "monitor"
         /\ \A i \in 1..Len(tcChan) : tcChan[i] # k)
        => repo[tunits[k].task].status = "error"

(***************************************************************************)
(* C15 - C18: the data-channel file server                                 *)
(***************************************************************************)
\* every frame sent for a request id, and its data frames
AllFramesOf(id) == SelectSeq(dataChan, LAMBDA f : f.id = id)
DataFramesOf(id) == SelectSeq(dataChan, LAMBDA f : f.id = id /\ f.type # "hijackError")

UnderPlaylistRoot(path) == Len(path) > 2 /\ SubSeq(path, 1, 2) = PlaylistRoot

\* C15: a hijackReq whose ts contains ../ or ..\ is rejected silently: no frame
\* with its id is sent, and no file outside the playlist root is read.
C15_DotDotRejectedSilently ==
    \A id \in ReqIds :
        (reqs[id].pc # "new" /\ reqs[id].typ = "hijackReq" /\ ContainsDotDot(reqs[id].ts))
        => /\ AllFramesOf(id) = <<>>
           /\ \A p \in readLog : UnderPlaylistRoot(p)

\* ceil(L / 16384)
CeilDiv(L, c) == IF L % c = 0 THEN L \div c ELSE L \div c + 1

RECURSIVE Reassemble(_, _, _)
\* the client's reassembly: the decoded payloads of slices n .. total-1 in sliceNum order
Reassemble(fr, n, total) ==
    IF n >= total THEN <<>>
    ELSE LET f == fr[CHOOSE i \in 1..Len(fr) : fr[i].sliceNum = n]
         IN DecodeString(f.payload) \o Reassemble(fr, n + 1, total)

RECURSIVE DecodedLength(_)
DecodedLength(fr) ==
    IF fr = <<>> THEN 0 ELSE Len(DecodeString(Head(fr).payload)) + DecodedLength(Tail(fr))

\* C16: for every served file of length L the decoded chunks, concatenated in
\* sliceNum order, are the file's bytes; every frame carries totalLength = L and
\* totalSliceNum = ceil(L / chunk size), and the decoded lengths sum to L.
C16_ChunksReassembleToFile ==
    \A id \in ReqIds :
        reqs[id].pc = "served" =>
            LET fr == DataFramesOf(id)
                L == Len(reqs[id].data)
                total == CeilDiv(L, ServerChunkSize)
            IN /\ \A i \in 1..Len(fr) : fr[i].totalLength = L /\ fr[i].totalSliceNum = total
               /\ \A n \in 0..(total - 1) : \E i \in 1..Len(fr) : fr[i].sliceNum = n
               /\ Reassemble(fr, 0, total) = reqs[id].data
               /\ DecodedLength(fr) = L

\* a file of the longest length, whose last chunk is shorter than the others, was served
C16_Witness ==
    \E id \in ReqIds :
        /\ reqs[id].pc = "served"
        /\ Len(reqs[id].data) = MaxFileLen
        /\ Len(DataFramesOf(id)) >= 2

\* C17: for each request id the data frames appear on the channel with sliceNum
\* 0, 1, 2, ... without gap or repeat, and a served request has sent them all,
\* also when the frames of two requests are interleaved on the channel.
C17_SlicesAscendPerRequest ==
    \A id \in ReqIds :
        LET fr == DataFramesOf(id) IN
        /\ \A i \in 1..Len(fr) : fr[i].sliceNum = i - 1
        /\ reqs[id].pc = "served" => Len(fr) = CeilDiv(Len(reqs[id].data), ServerChunkSize)

\* the frames of two requests are interleaved on the channel, both served
C17_Witness ==
    /\ \A id \in ReqIds : reqs[id].pc = "served"
    /\ \E i, j, k \in 1..Len(dataChan) :
        /\ i < j /\ j < k
        /\ dataChan[i].id = dataChan[k].id
        /\ dataChan[j].id # dataChan[i].id
        /\ \A x \in {i, j, k} : dataChan[x].type # "hijackError"

\* the request names a task directory and a file, and no file of that name is
\* in the named directory or in a directory of the playlist root
IsMiss(ts) ==
    LET parts == TrimVideo(UrlPath(ts)) IN
    /\ Len(parts) >= 2
    /\ parts[2] # ""
    /\ \A d \in {parts[1]} \cup {TaskDirs[i] : i \in 1..Len(TaskDirs)} :
            Join(PlaylistRoot \o <<d, parts[2]>>) \notin Files

C19_UnknownHeartbeatRejected ==
    [][\A w \in Workers :
        (registry[w].status = "absent" /\ UpdateNodeHeartbeat(w))
        => (hbResult' = [worker |-> w, ok |-> FALSE] /\ registry' = registry)]_vars

\* the last heartbeat was for a worker without a record
C19_Witness ==
    /\ hbResult.worker \in Workers
    /\ ~hbResult.ok
    /\ registry[hbResult.worker].status = "absent"
    /\ \E w \in Workers : registry[w].status # "absent"

\* C20: after every sweep every record older than 2 minutes is offline, no
\* record older than 10 minutes is left, and the records seen within the last
\* 2 minutes are as they were before the sweep.
C20_SweepMarksAndEvicts ==
    [][cleanupOfflineNodes =>
        \A w \in Workers :
            /\ (registry'[w].status # "absent" /\ now - registry'[w].lastSeen > 2)
                    => registry'[w].status = "offline"
            /\ ~(registry'[w].status # "absent" /\ now - registry'[w].lastSeen > 10)
            /\ (registry[w].status # "absent" /\ now - registry[w].lastSeen <= 2)
                    => registry'[w] = registry[w]]_vars

\* a sweep has marked a record offline while another record, seen within the
\* last 2 minutes, is online
C20_Witness ==
    \E w, v \in Workers :
        /\ registry[w].status = "offline"
        /\ now - registry[w].lastSeen > 2
        /\ registry[v].status = "online"
        /\ now - registry[v].lastSeen <= 2

\* C21: a task list request issued when a worker's last heartbeat is more than
\* 2 minutes old neither counts that worker among the expected answers nor
\* puts it among the workers get_tasks is sent to.
C21_SilentWorkerNotAsked ==
    [][\A r \in Requests :
         (hpc[r] = "idle" /\ hpc'[r] # "idle") =>
            \A w \in Workers :
               (registry[w].status # "absent" /\ now - registry[w].lastSeen > OfflineAfter)
                   => /\ w \notin hNodes'[r]
                      /\ pending'[r].expected
                            <= Cardinality({v \in Workers :
                                   /\ registry[v].status # "absent"
                                   /\ now - registry[v].lastSeen <= OfflineAfter})]_vars

\* C22: the status of a signaling session never moves backwards in the order
\* negotiating, connected, closed while the session exists.
C22_SessionStatusForward ==
    [][\A s \in SessionIds :
         LET rank == [st \in {"negotiating", "connected", "closed"} |->
                        IF st = "negotiating" THEN 0 ELSE IF st = "connected" THEN 1 ELSE 2]
         IN (signaling[s].status # "absent" /\ signaling'[s].status # "absent")
               => rank[signaling'[s].status] >= rank[signaling[s].status]]_vars

\* C23: a client offer that names an existing session leaves the session's
\* client id, worker id and creation time as they were.
C23_OfferKeepsExistingSession ==
    [][\A s \in SessionIds, c \in Clients, w \in Workers :
         (handleClientOffer(s, c, w) /\ signaling[s].status # "absent")
            => /\ signaling'[s].client = signaling[s].client
               /\ signaling'[s].worker = signaling[s].worker
               /\ signaling'[s].createdAt = signaling[s].createdAt]_vars

\* C24: when a worker's WebSocket closes, the steps of its connection handler
\* remove the hub entry and leave the worker's registry record as it was.
C24_CloseKeepsRegistryRecord ==
    [][\A w \in Workers :
         (wsPc[w] # "none" /\ wsPc'[w] # wsPc[w])
            => /\ w \notin nodeConns'
               /\ registry'[w] = registry[w]]_vars

\* C25: a task list request that is still waiting waits for at least one
\* worker whose connection handler has not finished: once the handlers of all
\* the workers it has not heard from have cleaned up, it is no longer waiting.
C25_ClosedWorkerNotAwaited ==
    \A r \in Requests :
        (hpc[r] = "wait" /\ pending[r].exists)
            => \E w \in Workers : <<w, r>> \in inflight /\ wsPc[w] # "none"

\* C28: whenever the link has dropped and the worker is not stopped, the worker
\* eventually holds an open connection on which it has written its registration
\* frame, or has been stopped.
C28_ReconnectsEventually ==
    (~connected /\ reconnectLoop /\ ~stopped) ~> (conn = "open" \/ stopped)

\* C29: the components are stopped in the order gateway link, transcoders,
\* peer-connections, and the persistence layer after every other component.
C29_ShutdownOrder ==
    LET place == [c \in {"gateway", "transcoder", "webrtc", "database"} |->
                    IF c = "gateway" THEN 1 ELSE IF c = "transcoder" THEN 2
                    ELSE IF c = "webrtc" THEN 3 ELSE 4]
    IN /\ \A i, j \in 1..Len(stopLog) :
            (i < j /\ stopLog[i] \in DOMAIN place /\ stopLog[j] \in DOMAIN place)
                => place[stopLog[i]] < place[stopLog[j]]
       /\ \A i \in 1..Len(stopLog) :
            stopLog[i] = "database" => i = Len(StopOrder)

\* C30: a SendMessage call made while the client is not connected returns
\* ErrNotConnected, writes no frame and leaves the client's state as it was.
C30_SendWhileDisconnected ==
    [][(SendMessage /\ ~connected)
         => /\ sendResult' = "ErrNotConnected"
            /\ sent' = sent
            /\ UNCHANGED <<connected, conn, readLoop, reconnectLoop, stopped, registrations>>]_vars

\* a send was refused after the link had been up and had dropped
C30_Witness ==
    /\ sendResult = "ErrNotConnected"
    /\ ~connected
    /\ registrations > 0
    /\ ~stopped

\* C26: at no time are two writes to the connection of one worker in progress.
C26_WritesSerialized ==
    \A w \in Workers : Cardinality(writing[w]) <= 1

\* C27: a candidate whose handler ran while the offer of its session was still
\* to be handled is not lost.
C27_EarlyCandidateKept ==
    \A s \in SessionIds : ~(candidate[s] = "lost" /\ s \in offered)

\* C34: when the callback of a peer-connection that a newer offer has replaced
\* runs for failed or closed, the session's entry and the peer-connection the
\* newer offer installed stay as they were.
C34_ReplacedCallbackSparesNewer ==
    [][\A p \in PcIds :
         LET s == pcSession[p] IN
         (/\ OnConnectionStateChange(p)
          /\ pcState[p] = "failed"
          /\ sessions[s] # 0 /\ sessions[s] # p)
            => /\ sessions'[s] = sessions[s]
               /\ pcState'[sessions[s]] = pcState[sessions[s]]]_vars

\* C32: a worker whose latest connection is being read has that connection as
\* its hub entry and has a registry record.
C32_OpenConnectionIsRegistered ==
    \A c \in ConnIds :
        (/\ connPc[c] = "reading"
         /\ \A d \in ConnIds : (d > c /\ connPc[d] # "none") => connWorker[d] # connWorker[c])
            => /\ hubEntry[connWorker[c]] = c
               /\ nodes[connWorker[c]] # "absent"

C33_TranscodingEnds ==
    \A t \in TranscodeSlots :
        (repo[t].status = "transcoding") ~> (repo[t].status \in {"ready", "error"})

\* C35: at most one download work unit runs for a task id at any time, also
\* when ResumeTask follows PauseTask before the paused unit's next tick.
C35_OneUnitPerTask ==
    \A u, v \in UnitIds :
        (u # v /\ units[u].pc \notin {"free", "done"} /\ units[v].pc \notin {"free", "done"})
            => units[u].task # units[v].task

\* C36: once the record of a task id is gone from the repository, no write of a
\* download unit brings a record for that id back: the only step after which a
\* record exists where none did is StartDownload's Create of a new pending task.
C36_RemovedStaysRemoved ==
    [][\A t \in TaskIds :
          (repo[t].status = "absent" /\ repo'[t].status # "absent")
              => repo'[t] = [NoRecord EXCEPT !.status = "pending"]]_vars

\* C37: during shutdown no download work unit sends on the status channel
\* after the channel has been closed.
C37_NoSendOnClosedChannel ==
    \A u \in UnitIds : units[u].pc # "panic"

\* C38: the number of the worker's tasks in status downloading never exceeds
\* the cap on downloads, whatever StartDownload, PauseTask and ResumeTask do.
C38_DownloadingWithinCap ==
    Cardinality({t \in RepoIds : repo[t].own /\ repo[t].status = "downloading"}) <= maxTasks

\* C39: the gateway forwards a webrtc_answer or ice_candidate for a session
\* only when the connection that produced it is the worker, respectively the
\* client, the session is bound to.
C39_RelayOnlyFromBoundParty ==
    relayed.type # "none" => relayed.from = relayed.bound

\* C40: the worker holds at most one open gateway connection and runs at most
\* one reconnect loop at any time.
C40_OneConnectionOneLoop ==
    openConns <= 1 /\ loops <= 1

====
